---- MODULE Spec2Model ----
(***************************************************************************)
(* A model of several parts of the hive server:                            *)
(*   - the agentic loop of the tool router   (src/src/hive/tools/router.py)*)
(*   - the per-connection conductor   (src/src/hive/server/websocket.py)   *)
(*   - the BLAST index builder and search    (src/src/hive/deps/blast.py)  *)
(*   - the ingestion pipeline              (src/src/hive/watcher/ingest.py)*)
(*   - the startup scan                   (src/src/hive/watcher/watcher.py)*)
(*   - the approval gate of external tools (src/src/hive/tools/quarantine.py,*)
(*     src/src/hive/admin/cli.py)                                          *)
(*   - the wrapper around every tool's execute (src/src/hive/tools/base.py)*)
(*   - route_input as a whole: the three input modes in front of the loop, *)
(*     and the data the loop carries (src/src/hive/tools/router.py)        *)
(*   - the conversation history and the auto-pipe cache of a run           *)
(*     (src/src/hive/server/websocket.py, src/src/hive/tools/router.py)    *)
(*   - the command line of a BLAST search    (src/src/hive/deps/blast.py,  *)
(*     src/src/hive/tools/blast.py)                                        *)
(*   - the watch loop and its index rebuilds (src/src/hive/watcher/watcher.py)*)
(*   - the admin start/stop of the watcher (src/src/hive/admin/routes.py)  *)
(*   - the progress events of the loop       (src/src/hive/tools/router.py)*)
(*   - the current chat and the chat storage (src/src/hive/chat/storage.py)*)
(* Each part has its own specification (SpecRouter, SpecConn, SpecBlast,   *)
(* SpecIngest, SpecIngestConc, SpecScan, SpecQuarantine, SpecTool,         *)
(* SpecRoute, SpecHistory, SpecPipe, SpecSearch, SpecWatch, SpecAdmin,     *)
(* SpecProgress, SpecChat); the variables of the other parts keep their    *)
(* initial values.                                                         *)
(***************************************************************************)
EXTENDS Integers, Sequences, FiniteSets, TLC

VARIABLES
    \* ---- agentic loop (_unified_loop) ----
    registry,      \* names of the tools tagged "llm" (tool_map keys)
    max_turns,     \* the loop bound of this request
    rpc,           \* position of the loop: "loop", "await", "tools", "done"
    turn,          \* the for-loop variable
    force_text,    \* router.py:171
    schemas,       \* names of the tool schemas offered on the next turn
    last_tool,     \* router.py:164 ("none" for None)
    last_result,   \* router.py:163 ("none" for None)
    exceeded,      \* router.py:169
    messages,      \* the message stack sent to the LLM
    chain,         \* tool names of the executed steps, in execution order
    chain_turn,    \* for each step of chain, the turn it was executed in
    tool_calls,    \* msg["tool_calls"] of the turn being processed
    tc_idx,        \* index of the next tool call of tool_calls to process
    llm_calls,     \* number of llm_client.chat calls made by the loop
    turn_tools,    \* tools= argument of the most recent chat call
    turn_choice,   \* tool_choice= argument of the most recent chat call
    response,      \* type of the returned response ("none" while running)
    \* ---- conductor of one connection (websocket_endpoint, _handle_message) ----
    n_content,     \* content messages received so far (= tasks created)
    n_cancel,      \* cancel messages received so far
    task_pc,       \* per task: the await its coroutine is suspended at
    task_result,   \* per task: what route_input returned ("none" before)
    task_cancel,   \* per task: cancel() was called and is not yet delivered
    cancel_at,     \* per task: where it was suspended at each cancel() call
    manager_tasks, \* manager.tasks[conn_id]: a task id, or 0 for no entry
    sent,          \* the messages sent to the client, in order
    history,       \* manager.histories[conn_id]
    chat,          \* the connection's current chat record
    \* ---- BLAST index builder and search (build_index, run_search) ----
    lock_file,     \* .build.lock: its creator (0: no file) and whether older than 600 s
    index_files,   \* the hive_nucl.* files: "absent", "partial" or "complete"
    bpc,           \* per build_index caller: the step it is at
    created,       \* per caller: its current call created .build.lock
    exit_kind,     \* per caller: how its last call left build_index
    ever_built,    \* an index build has completed successfully
    last_search,   \* the most recent run_search: its outcome, and ever_built then
    \* ---- ingestion pipeline (ingest_file, remove_file) and its database ----
    fs,            \* per watched path: the bytes of the file on disk
    files_tbl,     \* committed rows of indexed_files
    seq_tbl,       \* committed rows of sequences
    feat_tbl,      \* committed rows of features
    primer_tbl,    \* committed rows of primers
    run,           \* per call slot: the call in progress, its locals and its session
    last_end,      \* the call that returned most recently
    last_commit,   \* the call slot whose session committed most recently (0: none)
    \* ---- the scan (scan_and_ingest) ----
    scan_files,    \* files: per parseable file found, whether its parser succeeds
    batch_size,    \* the batch_size argument
    spc,           \* the await the scan task is suspended at
    scan_i,        \* the loop variable i
    batch_count,   \* watcher.py:51
    session,       \* the batch's session: "none", "open", or how it has failed
    pending,       \* the files whose rows are written in the session, uncommitted
    committed,     \* the files whose rows are committed
    n_indexed,     \* indexed (watcher.py:49)
    n_errors,      \* errors (watcher.py:50)
    faults,        \* the files whose own ingest hit a database error
    at_cancel,     \* the parsed files of the unfinished batch when the task was cancelled
    \* ---- the approval gate of external tools (sync_quarantine, hive tool ...) ----
    tool_file,     \* per file name of the tools directory: the SHA-256 of its bytes
    approvals,     \* per file name: its tool_approvals row
    approved_set,  \* the set the most recent sync_quarantine returned
    just_synced,   \* nothing has happened since that sync_quarantine returned
    approved_hash, \* per file name: the file_hash its row held when last approved
    \* ---- one tool class and a call of its execute (Tool.__init_subclass__) ----
    tool_name,     \* the class attribute name
    accepted,      \* the keyword parameters of the class's own execute
    call_kw,       \* the keyword arguments of the call
    body_kw,       \* the keyword arguments the tool body was entered with
    tpc,           \* "idle", "body" (the body is running), "returned", "raised"
    body_end,      \* how the body ended: the exception class it raised, or "return"
    outcome,       \* what the caller got: the returned mapping, or the exception
    \* ---- route_input: the input modes and the data of the loop ----
    user_input,    \* the text received: its leading slashes, the name, the arguments
    llm_client,    \* whether an LLM client is configured
    tool_reg,      \* the names registry.get() finds
    direct_exec,   \* the tool.execute calls made outside the loop (router.py:84, 103)
    last_params,   \* router.py:165
    tokens,        \* router.py:168
    chain_steps,   \* the entries of chain (router.py:312-317)
    resp,          \* the response route_input returns
    raised,        \* the exception route_input raises, or "none"
    ended,         \* how the loop was left: "text", "refusal", "fallback", or "none"
    \* ---- the conversation history of one connection, message by message ----
    h_all,         \* every message put into the history since it was last replaced
    h_count,       \* the content messages received
    \* ---- the auto-pipe cache of one run of _unified_loop ----
    pipe_min_length,     \* router.py:144
    summary_token_limit, \* router.py:145
    cache,         \* router.py:167: key -> stashed string (NoValue when absent)
    stashed,       \* every stash made by this run, in order: << key, value >>
    tool_msgs,     \* the contents of the tool messages appended for the LLM, in order
    call_rec,      \* the last executed tool call: what the LLM provided, what was executed
    n_calls,       \* tool calls processed so far
    summary_len,   \* the length of the last summary_for_llm text (-1: none yet)
    search_params,  \* the keyword arguments run_search is called with, in order: << key, value >>
    cmd,  \* the argument vector of the search process (<< >> before it is built)
    search_pc, \* position of a blast request: "idle", "call", "exec", "done"
    w_fs,  \* the watched directory: path -> content of the file (0: no file)
    w_store,  \* the committed index store: path -> content of the active sequence (0: none)
    w_index,  \* the sequences the BLAST index holds: path -> content (0: none)
    w_events,  \* the change events awatch has delivered and the loop has not processed
    w_changes,  \* changes made to the directory so far
    wpc, \* position of the watcher task: "off", "scan", "scan_build", "idle", "building"
    watcher_task,  \* app.state.watcher_task: the id of the stored task (0: None)
    a_task,  \* the watcher tasks created so far: id -> "scanning", "watching", "cancelling", "done"
    a_req, \* the admin requests received so far: [kind, pc, target]
    script,  \* the replies the LLM gives in this run, one per turn: "text" or the tool it calls
    e_pc,  \* position of the run: "off", "emit_start", "llm", "emit_tool", "exec", "emit_thinking", "done", "raised"
    e_turn,  \* the for-loop variable
    e_llm_calls,  \* calls of llm_client.chat made
    e_tools,  \* the tools executed, in order
    e_resp,  \* the response returned ("none" before)
    e_events, \* the progress events the callback has delivered
    store,  \* the chat storage: chat id -> [saved, title, messages] (title 0: None)
    title_asks,  \* chat id -> calls of _generate_chat_title made for it
    recv_chat,  \* per request: chat["id"] when the content message was received (0: None)
    fresh_id,  \* the id given to the conversation the connection started with (0: none yet)
    pre_hist,  \* per request: the history when the content message was received
    pre_msgs,  \* per request: chat["messages"] when the content message was received
    n_loads  \* load_chat messages handled

rvars == << registry, max_turns, rpc, turn, force_text, schemas, last_tool,
            last_result, exceeded, messages, chain, chain_turn, tool_calls,
            tc_idx, llm_calls, turn_tools, turn_choice, response >>

cvars == << n_content, n_cancel, task_pc, task_result, task_cancel, cancel_at,
            manager_tasks, sent, history, chat >>

bvars == << lock_file, index_files, bpc, created, exit_kind,
            ever_built, last_search >>

ivars == << fs, files_tbl, seq_tbl, feat_tbl, primer_tbl, run, last_end, last_commit >>

svars == << scan_files, batch_size, spc, scan_i, batch_count, session, pending,
            committed, n_indexed, n_errors, faults, at_cancel >>

qvars == << tool_file, approvals, approved_set, just_synced, approved_hash >>

tvars == << tool_name, accepted, call_kw, body_kw, tpc, body_end, outcome >>

dvars == << user_input, llm_client, tool_reg, direct_exec, last_params, tokens,
            chain_steps, resp, raised, ended >>

hvars == << h_all, h_count >>

pvars == << pipe_min_length, summary_token_limit, cache, stashed, tool_msgs,
            call_rec, n_calls, summary_len >>

xvars == << search_params, cmd, search_pc >>

wvars == << w_fs, w_store, w_index, w_events, w_changes, wpc >>

avars == << watcher_task, a_task, a_req >>

evars == << script, e_pc, e_turn, e_llm_calls, e_tools, e_resp, e_events >>

kvars == << store, title_asks, recv_chat, fresh_id, pre_hist, pre_msgs, n_loads >>

vars == << rvars, cvars, bvars, ivars, svars, qvars, tvars, dvars, hvars, pvars, xvars, wvars, avars, evars, kvars >>

----------------------------------------------------------------------------
\* Bounds of the model.

\* largest max_turns a request is run with
MaxTurnsBound == 2
\* largest number of tool calls the LLM puts into one turn
MaxCalls == 2
\* concurrent callers of build_index (server processes or tasks)
NumBuilders == 2
\* content messages a client sends on one connection
MaxContent == 2
\* cancel messages a client sends on one connection
MaxCancel == 2
\* chat.max_history_pairs of the server's configuration
MaxPairs == 2
\* call slots of the ingestion pipeline (calls that may be in progress at once)
NumRuns == 2
\* largest number of parseable files a scan finds
NumFiles == 3
\* largest batch_size a scan is run with
MaxBatch == 2
\* database errors that occur during one scan
MaxFaults == 1
\* content messages of a connection whose history is followed
MaxMsgs == 3
\* messages of a chat saved earlier
MaxSaved == 5
\* tool calls of one run of the loop whose cache is followed
MaxPipeCalls == 3
\* fields of a tool result
MaxFields == 1
\* keys of the extra mapping of a blast request
MaxExtra == 2
\* changes made to the watched directory
MaxChanges == 3
\* admin watcher requests of one server run
MaxReqs == 3
\* turns of a run whose progress events are followed
MaxScript == 3
\* load_chat messages of one connection
MaxLoads == 1

----------------------------------------------------------------------------
\* The agentic loop: src/src/hive/tools/router.py

\* The narrowing table.
NEXT_TOOLS ==
    [ search     |-> {"extract", "profile", "features", "primers", "blast"},
      profile    |-> {"extract", "features", "primers", "blast"},
      features   |-> {"extract", "blast"},
      primers    |-> {"extract", "blast"},
      extract    |-> {"blast", "translate", "transcribe", "revcomp", "digest", "gc"},
      blast      |-> {},
      translate  |-> {},
      transcribe |-> {},
      digest     |-> {},
      gc         |-> {},
      revcomp    |-> {} ]

\* The terminal tools: the keys of the table mapped to the empty set.
TerminalTools == { t \in DOMAIN NEXT_TOOLS : NEXT_TOOLS[t] = {} }

\* The dummy schema passed with tool_choice="none".
NOOP_TOOL == {"_noop"}

\* Tool names the LLM may put into a tool call: a chaining tool, a terminal
\* tool, and a name no registry holds.
LLMNames == {"search", "blast", "bogus"}

\* What a tool returns: a result with content, or an empty (falsy) mapping.
ToolResults == {"data", "empty"}

\* The registries a request is run with.
Registries == { {"search", "blast"}, {"search"} }

\* The tool_calls lists of one LLM reply: 1..MaxCalls names.
RECURSIVE SeqsUpTo(_, _)
SeqsUpTo(S, n) ==
    IF n = 0 THEN { << >> }
    ELSE LET shorter == SeqsUpTo(S, n - 1)
         IN  shorter \cup { Append(s, x) : s \in { t \in shorter : Len(t) = n - 1 }, x \in S }

CallLists == { s \in SeqsUpTo(LLMNames, MaxCalls) : Len(s) >= 1 }

\* The id of the i-th tool call of a turn.
CallId(t, i) == << t, i >>

\* _tool_response when a tool has run, a plain message otherwise (238-245).
TextResponse == IF last_result \notin {"none", "empty"} /\ last_tool # "none" THEN "tool_result" ELSE "message"

\* The code after the loop (344-358).
FallbackResponse ==
    IF chain = << >> THEN "error"
    ELSE IF last_result \notin {"none", "empty"} /\ last_tool # "none"
         THEN "tool_result" ELSE "message"

Builders == 1 .. NumBuilders

NoLock == [owner |-> 0, stale |-> FALSE]

\* No build_index call and no search has been made.
BlastIdle ==
    /\ lock_file = NoLock
    /\ index_files = "absent"
    /\ bpc = [p \in Builders |-> "idle"]
    /\ created = [p \in Builders |-> FALSE]
    /\ exit_kind = [p \in Builders |-> "none"]
    /\ ever_built = FALSE
    /\ last_search = [outcome |-> "none", built_before |-> FALSE]

\* No request is in the agentic loop.
RouterIdle ==
    /\ registry = {}
    /\ max_turns = 0
    /\ rpc = "idle"
    /\ turn = 0
    /\ force_text = FALSE
    /\ schemas = {}
    /\ last_tool = "none"
    /\ last_result = "none"
    /\ exceeded = FALSE
    /\ messages = << >>
    /\ chain = << >>
    /\ chain_turn = << >>
    /\ tool_calls = << >>
    /\ tc_idx = 1
    /\ llm_calls = 0
    /\ turn_tools = {}
    /\ turn_choice = "unset"
    /\ response = "none"

\* The conductor before any client message.
ConnIdle ==
    /\ n_content = 0
    /\ n_cancel = 0
    /\ task_pc = << >>
    /\ task_result = << >>
    /\ task_cancel = << >>
    /\ cancel_at = << >>
    /\ manager_tasks = 0
    /\ sent = << >>
    /\ history = << >>
    /\ chat = [id |-> 0, messages |-> << >>, title_generated |-> FALSE]

Runs == 1 .. NumRuns

\* the watched paths
Paths == {"a.gb", "b.gb"}

\* file contents: two parseable ones and one the parser raises on
Contents == {"c1", "c2", "bad"}

\* scalar_one_or_none() returning None
NoRow == [id |-> 0, file_path |-> "none", file_hash |-> "none",
          status |-> "none", error_msg |-> "none"]

\* an UPDATE that sets no column
NoUpd == [file_hash |-> "keep", status |-> "keep", error_msg |-> "keep"]

\* the watched files that are rewritten while the server runs
Rewritten == {"a.gb"}

NoCall == [op |-> "none", path |-> "none", ret |-> "none", file_hash |-> "none"]

\* a call slot with no call in it
IdleRun ==
    [op |-> "none", path |-> "none", pc |-> "idle", file_hash |-> "none",
     existing |-> NoRow, content |-> "none", targets |-> {}, del |-> {},
     upd |-> NoUpd, new_file |-> {}, new_seq |-> {}, ret |-> "none",
     again |-> FALSE, id0 |-> 0, changed |-> FALSE]

\* An empty index and no ingestion call.
IngestIdle ==
    /\ fs = [p \in Paths |-> "c1"]
    /\ files_tbl = {}
    /\ seq_tbl = {}
    /\ feat_tbl = {}
    /\ primer_tbl = {}
    /\ run = [r \in Runs |-> IdleRun]
    /\ last_end = NoCall
    /\ last_commit = 0

\* No scan has been started.
ScanIdle ==
    /\ scan_files = << >>
    /\ batch_size = 1
    /\ spc = "idle"
    /\ scan_i = 0
    /\ batch_count = 0
    /\ session = "none"
    /\ pending = {}
    /\ committed = {}
    /\ n_indexed = 0
    /\ n_errors = 0
    /\ faults = {}
    /\ at_cancel = {}

\* the names in the tools directory; sync_quarantine skips the names that
\* start with an underscore
ToolFiles == {"foo.py", "bar.py", "_util.py"}

\* the digests a tool file can have
Hashes == {"H1", "H2"}

\* no tool_approvals row for the file name
NoApproval == [file_hash |-> "none", tool_name |-> "none", status |-> "none",
               reviewed_at |-> "null"]

\* An empty tools directory and no approval row.
QuarIdle ==
    /\ tool_file = [f \in ToolFiles |-> "absent"]
    /\ approvals = [f \in ToolFiles |-> NoApproval]
    /\ approved_set = {}
    /\ just_synced = FALSE
    /\ approved_hash = [f \in ToolFiles |-> "none"]

\* no call has been made yet
NoOutcome == [pending |-> TRUE]

\* No tool class is under consideration.
ToolIdle ==
    /\ tool_name = "none"
    /\ accepted = {}
    /\ call_kw = {}
    /\ body_kw = {}
    /\ tpc = "idle"
    /\ body_end = "none"
    /\ outcome = NoOutcome

\* no text has been received
NoInput == [slashes |-> 0, name |-> "none", args |-> ""]

\* the value of a response field the response does not have
NoTokens == [in |-> -1, out |-> -1]

\* route_input has not returned
NoResp == [type |-> "none", tool |-> "none", data |-> "none", params |-> {},
           content |-> << >>, tokens |-> NoTokens, chain |-> << >>]

\* route_input is seen through the loop only.
RouteIdle ==
    /\ user_input = NoInput
    /\ llm_client = FALSE
    /\ tool_reg = {}
    /\ direct_exec = << >>
    /\ last_params = {}
    /\ tokens = [in |-> 0, out |-> 0]
    /\ chain_steps = << >>
    /\ resp = NoResp
    /\ raised = "none"
    /\ ended = "none"

\* No message has been put into the history.
HistIdle ==
    /\ h_all = << >>
    /\ h_count = 0

\* the keys of tool results and tool parameters
Keys == {"sequence", "query"}

\* an absent value: dict.get's None, a key not in cache
NoValue == [kind |-> "missing", len |-> 0, id |-> 0]

NoCallRec == [tool |-> "none"]

\* The loop has not started: the cache is empty (router.py:167), the
\* thresholds have their defaults (144-145).
PipeIdle ==
    /\ pipe_min_length = 200
    /\ summary_token_limit = 1000
    /\ cache = [k \in Keys |-> NoValue]
    /\ stashed = << >>
    /\ tool_msgs = << >>
    /\ call_rec = NoCallRec
    /\ n_calls = 0
    /\ summary_len = -1


\* No blast request is being served.
SearchIdle ==
    /\ search_params = << >>
    /\ cmd = << >>
    /\ search_pc = "idle"


\* the paths of the watched directory
WatchPaths == {"a.gb", "b.gb"}

\* The watcher task has not been started.
WatchIdle ==
    /\ w_fs = [p \in WatchPaths |-> 0]
    /\ w_store = [p \in WatchPaths |-> 0]
    /\ w_index = [p \in WatchPaths |-> 0]
    /\ w_events = << >>
    /\ w_changes = 0
    /\ wpc = "off"


\* The server has not started: no watcher task, no admin request.
AdminIdle ==
    /\ watcher_task = 0
    /\ a_task = << >>
    /\ a_req = << >>


\* No run with a progress callback has started.
ProgressIdle ==
    /\ script = << >>
    /\ e_pc = "off"
    /\ e_turn = 0
    /\ e_llm_calls = 0
    /\ e_tools = << >>
    /\ e_resp = "none"
    /\ e_events = << >>


\* The chat storage is not looked at.
ChatIdle ==
    /\ store = << >>
    /\ title_asks = << >>
    /\ recv_chat = << >>
    /\ fresh_id = 0
    /\ pre_hist = << >>
    /\ pre_msgs = << >>
    /\ n_loads = 0

RouterInit ==
    /\ registry \in Registries
    /\ max_turns \in 0 .. MaxTurnsBound
    /\ rpc = "loop"
    /\ turn = 0
    /\ force_text = FALSE
    /\ schemas = registry
    /\ last_tool = "none"
    /\ last_result = "none"
    /\ exceeded = FALSE
    /\ messages = << [role |-> "system"], [role |-> "user"] >>
    /\ chain = << >>
    /\ chain_turn = << >>
    /\ tool_calls = << >>
    /\ tc_idx = 1
    /\ llm_calls = 0
    /\ turn_tools = {}
    /\ turn_choice = "unset"
    /\ response = "none"
    /\ ConnIdle
    /\ BlastIdle
    /\ IngestIdle
    /\ ScanIdle
    /\ QuarIdle
    /\ ToolIdle
    /\ RouteIdle
    /\ HistIdle
    /\ PipeIdle
    /\ SearchIdle
    /\ WatchIdle
    /\ AdminIdle
    /\ ProgressIdle
    /\ ChatIdle

\* Mutant of LoopContinues: the range is two turns too long.
LoopContinuesTwoExtra == turn < max_turns + 2

\* The loop condition of "for turn in range(max_turns)".
LoopContinues == turn < max_turns

\* The tools= and tool_choice= of a turn (184-185).
TurnTools == IF force_text THEN NOOP_TOOL ELSE schemas
TurnChoice == IF force_text THEN "none" ELSE "default"

\* for turn in range(max_turns): the chat call is issued (182-199).
LLMCall ==
    /\ rpc = "loop"
    /\ LoopContinues
    /\ turn_tools' = TurnTools
    /\ turn_choice' = TurnChoice
    /\ llm_calls' = llm_calls + 1
    /\ rpc' = "await"
    /\ UNCHANGED << registry, max_turns, turn, force_text, schemas, last_tool,
                    last_result, exceeded, messages, chain, chain_turn,
                    tool_calls, tc_idx, response >>

\* The for-loop is exhausted: its else branch, then the code after it (336-358).
LoopExhausted ==
    /\ rpc = "loop"
    /\ ~LoopContinues
    /\ exceeded' = TRUE
    /\ response' = FallbackResponse
    /\ rpc' = "done"
    /\ UNCHANGED << registry, max_turns, turn, force_text, schemas, last_tool,
                    last_result, messages, chain, chain_turn, tool_calls,
                    tc_idx, llm_calls, turn_tools, turn_choice >>

\* The chat call raises: exceeded, break, then the code after the loop (200-203).
LLMFail ==
    /\ rpc = "await"
    /\ exceeded' = TRUE
    /\ response' = FallbackResponse
    /\ rpc' = "done"
    /\ UNCHANGED << registry, max_turns, turn, force_text, schemas, last_tool,
                    last_result, messages, chain, chain_turn, tool_calls,
                    tc_idx, llm_calls, turn_tools, turn_choice >>

\* finish_reason == "refusal" (221-227).
LLMRefusal ==
    /\ rpc = "await"
    /\ response' = "message"
    /\ rpc' = "done"
    /\ UNCHANGED << registry, max_turns, turn, force_text, schemas, last_tool,
                    last_result, exceeded, messages, chain, chain_turn,
                    tool_calls, tc_idx, llm_calls, turn_tools, turn_choice >>

\* Mutant of IgnoresToolCalls: the "or force_text" of line 231 is missing.
IgnoresToolCallsNever == FALSE

\* Whether a reply carrying tool calls is still answered as a text turn (231).
IgnoresToolCalls == force_text

\* A reply without tool_calls: the text turn (231-245).
LLMText ==
    /\ rpc = "await"
    /\ response' = TextResponse
    /\ rpc' = "done"
    /\ UNCHANGED << registry, max_turns, turn, force_text, schemas, last_tool,
                    last_result, exceeded, messages, chain, chain_turn,
                    tool_calls, tc_idx, llm_calls, turn_tools, turn_choice >>

\* A reply with tool_calls cs: ignored under force_text (231), otherwise the
\* assistant message is appended and its calls are processed (247-250).
LLMToolCalls(cs) ==
    /\ rpc = "await"
    /\ IF IgnoresToolCalls
       THEN /\ response' = TextResponse
            /\ rpc' = "done"
            /\ UNCHANGED << messages, tool_calls, tc_idx >>
       ELSE /\ messages' = Append(messages, [role |-> "assistant", turn |-> turn, calls |-> cs])
            /\ tool_calls' = cs
            /\ tc_idx' = 1
            /\ rpc' = "tools"
            /\ UNCHANGED response
    /\ UNCHANGED << registry, max_turns, turn, force_text, schemas, last_tool,
                    last_result, exceeded, chain, chain_turn, llm_calls,
                    turn_tools, turn_choice >>

\* Mutant of UnknownToolMessages: an unknown tool is skipped without a message.
UnknownToolNoMessage(name) == << >>

\* The message appended for a tool call whose name tool_map does not hold (269-275).
UnknownToolMessages(name) ==
    << [role |-> "tool", tool_call_id |-> CallId(turn, tc_idx), content |-> "error", tool |-> name] >>

\* tool_map.get(tool_name) is None: an error message, then continue (269-275).
UnknownTool ==
    /\ rpc = "tools"
    /\ tc_idx <= Len(tool_calls)
    /\ tool_calls[tc_idx] \notin registry
    /\ messages' = messages \o UnknownToolMessages(tool_calls[tc_idx])
    /\ tc_idx' = tc_idx + 1
    /\ UNCHANGED << registry, max_turns, rpc, turn, force_text, schemas,
                    last_tool, last_result, exceeded, chain, chain_turn,
                    tool_calls, llm_calls, turn_tools, turn_choice, response >>

\* The tool is executed; its summary is appended; chain and last_* are updated
\* (277-323).
ExecTool(res) ==
    /\ rpc = "tools"
    /\ tc_idx <= Len(tool_calls)
    /\ tool_calls[tc_idx] \in registry
    /\ LET name == tool_calls[tc_idx]
       IN  /\ messages' = Append(messages,
                 [role |-> "tool", tool_call_id |-> CallId(turn, tc_idx),
                  content |-> "summary", tool |-> name])
           /\ chain' = Append(chain, name)
           /\ chain_turn' = Append(chain_turn, turn)
           /\ last_tool' = name
           /\ last_result' = res
    /\ tc_idx' = tc_idx + 1
    /\ UNCHANGED << registry, max_turns, rpc, turn, force_text, schemas,
                    exceeded, tool_calls, llm_calls, turn_tools, turn_choice,
                    response >>

\* The schemas of the next turn (326-334): narrowed, or None (the empty set).
Narrowed(t) == { n \in registry : n \in NEXT_TOOLS[t] }

\* Mutant of NarrowForcesText: the empty allowed set does not force text.
NarrowForcesTextOnlyWhenNoSchema(t) ==
    /\ t # "none"
    /\ t \in DOMAIN NEXT_TOOLS
    /\ NEXT_TOOLS[t] # {}
    /\ Narrowed(t) = {}

\* Whether the next turn is forced to text (326-334).
NarrowForcesText(t) ==
    /\ t # "none"
    /\ t \in DOMAIN NEXT_TOOLS
    /\ \/ NEXT_TOOLS[t] = {}
       \/ Narrowed(t) = {}

\* All tool calls of the turn are processed: narrow for the next turn (325-334).
Narrow ==
    /\ rpc = "tools"
    /\ tc_idx > Len(tool_calls)
    /\ force_text' = (force_text \/ NarrowForcesText(last_tool))
    /\ schemas' = IF last_tool # "none" /\ last_tool \in DOMAIN NEXT_TOOLS
                     /\ NEXT_TOOLS[last_tool] # {}
                  THEN Narrowed(last_tool)
                  ELSE schemas
    /\ turn' = turn + 1
    /\ rpc' = "loop"
    /\ UNCHANGED << registry, max_turns, last_tool, last_result, exceeded,
                    messages, chain, chain_turn, tool_calls, tc_idx, llm_calls,
                    turn_tools, turn_choice, response >>

\* The other parts of the server are not running.
RouterFrame == UNCHANGED << cvars, bvars, ivars, svars, qvars, tvars, dvars, hvars, pvars, xvars, wvars, avars, evars, kvars >>

RouterNext ==
    \/ LLMCall /\ RouterFrame
    \/ LoopExhausted /\ RouterFrame
    \/ LLMFail /\ RouterFrame
    \/ LLMRefusal /\ RouterFrame
    \/ LLMText /\ RouterFrame
    \/ \E cs \in CallLists : LLMToolCalls(cs) /\ RouterFrame
    \/ UnknownTool /\ RouterFrame
    \/ \E res \in ToolResults : ExecTool(res) /\ RouterFrame
    \/ Narrow /\ RouterFrame

SpecRouter == RouterInit /\ [][RouterNext]_vars

----------------------------------------------------------------------------
\* route_input as a whole (src/src/hive/tools/router.py): the input modes in
\* front of the loop, and what the loop above carries along: the parameters
\* of each call, the chain entries, the token counts, the response.

\* The tools of the registry: search, extract and blast are tagged llm, and a
\* direct-only tool named report, one named direct and one named help are not.
RegisteredTools == {"search", "extract", "blast", "report", "direct", "help"}

\* "llm" in tool.tags
HasLlmTag(t) == t \in {"search", "extract", "blast"}

\* tool.input_schema().get("required")
HasRequired(t) == t \in {"search", "extract", "blast", "report"}

\* The classes that define summary_for_llm(self, result) themselves, without
\* the token_limit parameter of Tool.summary_for_llm (extract.py:46; likewise
\* digest, primers, revcomp and translate).
OverridesSummary(t) == t \in {"extract"}

\* registry.llm_tools() (base.py:135-137)
LlmTools(reg) == { t \in reg : HasLlmTag(t) }

\* the names a user may type after the slashes
InputNames == RegisteredTools \cup {"nosuch"}

\* the argument texts: none, a JSON object, plain words
ArgTexts == {"", "{\"key\": \"val\"}", "hello"}

\* json.loads on the texts above that are JSON; a mapping is a set of
\* <<key, value>> pairs
JsonObjects == [ t \in {"{\"key\": \"val\"}"} |-> {<< "key", "val" >>} ]

\* Mutant of _parse_args: the empty text is wrapped like any other.
ParseArgsWrapsEmpty(text) ==
    IF text \in DOMAIN JsonObjects THEN JsonObjects[text] ELSE {<< "query", text >>}

\* _parse_args (364-371)
parse_args(text) ==
    IF text = "" THEN {}
    ELSE IF text \in DOMAIN JsonObjects THEN JsonObjects[text]
    ELSE {<< "query", text >>}

\* The texts a request may consist of: "//name args", "/name args", and free
\* text (slashes = 0), of which "help" is one.
UserInputs ==
    [slashes : {1, 2}, name : InputNames, args : ArgTexts]
    \cup { [slashes |-> 0, name |-> "help", args |-> ""],
           [slashes |-> 0, name |-> "find", args |-> "hello"] }

\* user_input.strip().lstrip("/") == "help" (66)
IsHelp(inp) == inp.name = "help" /\ inp.args = ""

\* The arguments string of a tool call as the LLM writes it: an object, an
\* object with a null value, text that is not JSON.
LLMArguments == {"{\"query\": \"gfp\"}", "{\"query\": null}", "gfp"}

\* lines 254-260: json.loads, null values dropped, {} when it fails
ParseToolArguments(a) == IF a = "{\"query\": \"gfp\"}" THEN {<< "query", "gfp" >>} ELSE {}

\* The tool_calls lists of one reply in a request of this registry.
RouteCallLists ==
    { cs \in SeqsUpTo(LLMNames \cup {"extract"}, MaxCalls) : Len(cs) >= 1 }

\* whether a result is truthy
Truthy(res) == res \notin {"none", "empty"}

\* tool.format_result(result)
FormatResult(t, res) == << "summary of", t, res >>

\* the usage of a reply: absent, or one token in and one out (206-210)
Usages == { [in |-> 0, out |-> 0], [in |-> 1, out |-> 1] }

Accumulate(u) == [in |-> tokens.in + u.in, out |-> tokens.out + u.out]

\* the content of a reply: empty or a sentence
ReplyTexts == { << >>, << "text" >> }

\* _error and _help_response (393-404)
MessageResp(content, tok, ch) ==
    [type |-> "message", tool |-> "none", data |-> "none", params |-> {},
     content |-> content, tokens |-> tok, chain |-> ch]

\* _form_response (384-390)
FormResp(t) ==
    [type |-> "form", tool |-> t, data |-> "schema", params |-> {},
     content |-> << "Fill in the required parameters for", t >>,
     tokens |-> NoTokens, chain |-> << >>]

\* _tool_response (374-381)
ToolResp(t, res, params, content, tok, ch) ==
    [type |-> "tool_result", tool |-> t, data |-> res, params |-> params,
     content |-> content, tokens |-> tok, chain |-> ch]

\* the response of a text turn (238-245)
TextResp(content, tok) ==
    IF Truthy(last_result) /\ last_tool # "none"
    THEN ToolResp(last_tool, last_result, last_params, content, tok, chain_steps)
    ELSE MessageResp(content, tok, << >>)

\* the response after the loop (344-358)
FallbackResp ==
    IF chain_steps = << >>
    THEN MessageResp(<< "No tools were called during reasoning." >>, NoTokens, << >>)
    ELSE LET fallback == chain_steps[Len(chain_steps)].summary
                         \o << "(reached maximum reasoning steps)" >>
         IN  IF Truthy(last_result) /\ last_tool # "none"
             THEN ToolResp(last_tool, last_result, last_params, fallback, tokens, chain_steps)
             ELSE MessageResp(fallback, tokens, chain_steps)

\* A request: any text, with or without an LLM client.
RouteInit ==
    /\ tool_reg = RegisteredTools
    /\ registry = LlmTools(RegisteredTools)
    /\ max_turns \in 0 .. MaxTurnsBound
    /\ rpc = "start"
    /\ turn = 0
    /\ force_text = FALSE
    /\ schemas = LlmTools(RegisteredTools)
    /\ last_tool = "none"
    /\ last_result = "none"
    /\ exceeded = FALSE
    /\ messages = << [role |-> "system"], [role |-> "user"] >>
    /\ chain = << >>
    /\ chain_turn = << >>
    /\ tool_calls = << >>
    /\ tc_idx = 1
    /\ llm_calls = 0
    /\ turn_tools = {}
    /\ turn_choice = "unset"
    /\ response = "none"
    /\ user_input \in UserInputs
    /\ llm_client \in BOOLEAN
    /\ direct_exec = << >>
    /\ last_params = {}
    /\ tokens = [in |-> 0, out |-> 0]
    /\ chain_steps = << >>
    /\ resp = NoResp
    /\ raised = "none"
    /\ ended = "none"
    /\ ConnIdle
    /\ BlastIdle
    /\ IngestIdle
    /\ ScanIdle
    /\ QuarIdle
    /\ ToolIdle
    /\ HistIdle
    /\ PipeIdle
    /\ SearchIdle
    /\ WatchIdle
    /\ AdminIdle
    /\ ProgressIdle
    /\ ChatIdle

\* route_input returns r without entering the loop
Return(r) ==
    /\ rpc' = "done"
    /\ response' = r.type
    /\ resp' = r
    /\ UNCHANGED << raised >>

\* route_input raises e
Raise(e) ==
    /\ rpc' = "raised"
    /\ raised' = e
    /\ UNCHANGED << response, resp >>

\* _unified_loop is entered (108-117, 123-132)
EnterLoop ==
    /\ rpc' = "loop"
    /\ UNCHANGED << response, resp, raised, direct_exec >>

\* the form check, _parse_args, tool.execute and the response (78-85, 97-104)
ExecuteDirectly(mode, res) ==
    LET t == user_input.name
    IN  IF user_input.args = "" /\ HasRequired(t)
        THEN Return(FormResp(t)) /\ UNCHANGED direct_exec
        ELSE LET params == parse_args(user_input.args)
             IN  /\ direct_exec' = << [tool |-> t, params |-> params, mode |-> mode] >>
                 /\ Return(ToolResp(t, res, params, FormatResult(t, res), NoTokens, << >>))

\* the test of line 95, negated
GuidedUsesLoop == llm_client /\ HasLlmTag(user_input.name)

\* route_input up to its return or its call of _unified_loop (66-132);
\* res is what the tool returns if it is executed
Dispatch(res) ==
    /\ rpc = "start"
    /\ IF IsHelp(user_input)
       THEN Return(MessageResp(<< "Available commands" >>, NoTokens, << >>)) /\ UNCHANGED direct_exec
       ELSE IF user_input.slashes = 2
       THEN IF user_input.name \notin tool_reg
            THEN Return(MessageResp(<< "Unknown tool", user_input.name >>, NoTokens, << >>))
                 /\ UNCHANGED direct_exec
            ELSE ExecuteDirectly("direct", res)
       ELSE IF user_input.slashes = 1
       THEN IF user_input.name \notin tool_reg
            THEN Return(MessageResp(<< "Unknown tool", user_input.name >>, NoTokens, << >>))
                 /\ UNCHANGED direct_exec
            ELSE IF GuidedUsesLoop THEN EnterLoop ELSE ExecuteDirectly("guided", res)
       ELSE IF ~llm_client
            THEN Return(MessageResp(<< "LLM not available" >>, NoTokens, << >>))
                 /\ UNCHANGED direct_exec
            ELSE EnterLoop
    /\ UNCHANGED << registry, max_turns, turn, force_text, schemas, last_tool,
                    last_result, exceeded, messages, chain, chain_turn,
                    tool_calls, tc_idx, llm_calls, turn_tools, turn_choice,
                    user_input, llm_client, tool_reg, last_params, tokens,
                    chain_steps, ended >>


\* What the steps of the loop do to the data they carry.

RouteData == << user_input, llm_client, tool_reg, direct_exec >>

\* a step that touches none of it
LoopKeeps == UNCHANGED << last_params, tokens, chain_steps, resp, raised, ended >>

\* the loop is left without a text turn (336-358)
LoopFallback ==
    /\ resp' = FallbackResp
    /\ ended' = "fallback"
    /\ UNCHANGED << last_params, tokens, chain_steps, raised >>

\* finish_reason == "refusal" (205-227)
RefusalReply(u, content) ==
    /\ tokens' = Accumulate(u)
    /\ resp' = MessageResp(IF content = << >> THEN << "Request declined by the model." >>
                           ELSE content, tokens', << >>)
    /\ ended' = "refusal"
    /\ UNCHANGED << last_params, chain_steps, raised >>

\* a text turn (205-245)
TextReply(u, content) ==
    /\ tokens' = Accumulate(u)
    /\ resp' = TextResp(content, tokens')
    /\ ended' = "text"
    /\ UNCHANGED << last_params, chain_steps, raised >>

\* a reply with tool calls (205-250)
ToolCallsReply(u, content) ==
    /\ tokens' = Accumulate(u)
    /\ IF IgnoresToolCalls
       THEN resp' = TextResp(content, tokens') /\ ended' = "text"
       ELSE UNCHANGED << resp, ended >>
    /\ UNCHANGED << last_params, chain_steps, raised >>

\* The exception the router's own code raises while handling the call of
\* tool t: summary_for_llm(result, token_limit=...) (299) on an override
\* without that parameter.
RaisesInLoop(t) == IF OverridesSummary(t) THEN "TypeError" ELSE "none"

\* One tool call of the turn, arguments a, the tool returning res (250-323).
ExecStep(a, res) ==
    /\ rpc = "tools"
    /\ tc_idx <= Len(tool_calls)
    /\ tool_calls[tc_idx] \in registry
    /\ LET t == tool_calls[tc_idx]
           params == ParseToolArguments(a)
       IN  IF RaisesInLoop(t) # "none"
           THEN /\ Raise(RaisesInLoop(t))
                /\ UNCHANGED << registry, max_turns, turn, force_text, schemas,
                                last_tool, last_result, exceeded, messages, chain,
                                chain_turn, tool_calls, tc_idx, llm_calls,
                                turn_tools, turn_choice, last_params, tokens,
                                chain_steps, ended >>
           ELSE /\ ExecTool(res)
                /\ last_params' = params
                /\ chain_steps' = Append(chain_steps,
                       [tool |-> t, params |-> params, summary |-> FormatResult(t, res)])
                /\ UNCHANGED << tokens, resp, raised, ended >>

RouteFrame == UNCHANGED << cvars, bvars, ivars, svars, qvars, tvars, hvars, pvars, xvars, wvars, avars, evars, kvars >>

RouteNext ==
    \/ \E res \in ToolResults : Dispatch(res) /\ RouteFrame
    \/ LLMCall /\ LoopKeeps /\ UNCHANGED RouteData /\ RouteFrame
    \/ LoopExhausted /\ LoopFallback /\ UNCHANGED RouteData /\ RouteFrame
    \/ LLMFail /\ LoopFallback /\ UNCHANGED RouteData /\ RouteFrame
    \/ \E u \in Usages, c \in ReplyTexts :
          LLMRefusal /\ RefusalReply(u, c) /\ UNCHANGED RouteData /\ RouteFrame
    \/ \E u \in Usages, c \in ReplyTexts :
          LLMText /\ TextReply(u, c) /\ UNCHANGED RouteData /\ RouteFrame
    \/ \E cs \in RouteCallLists, u \in Usages, c \in ReplyTexts :
          LLMToolCalls(cs) /\ ToolCallsReply(u, c) /\ UNCHANGED RouteData /\ RouteFrame
    \/ UnknownTool /\ LoopKeeps /\ UNCHANGED RouteData /\ RouteFrame
    \/ \E a \in LLMArguments, res \in ToolResults :
          ExecStep(a, res) /\ UNCHANGED RouteData /\ RouteFrame
    \/ Narrow /\ LoopKeeps /\ UNCHANGED RouteData /\ RouteFrame

SpecRoute == RouteInit /\ [][RouteNext]_vars

----------------------------------------------------------------------------
\* The conductor of one connection: src/src/hive/server/websocket.py
\* The registry, the chat storage and an LLM client are configured.  Each
\* task is one run of _handle_message; task_pc names the await it is
\* suspended at.  route_input is seen from outside: it returns a response or
\* raises.

\* chat.auto_save_after of the default configuration.
save_threshold == 1

Tasks == 1 .. n_content

\* What route_input returns: the response type, whether result["data"] is
\* truthy, whether result["content"] is non-empty.
RouteResults ==
    { [type |-> "message",     data |-> FALSE, content |-> TRUE],
      [type |-> "message",     data |-> FALSE, content |-> FALSE],
      [type |-> "tool_result", data |-> TRUE,  content |-> TRUE],
      [type |-> "tool_result", data |-> FALSE, content |-> TRUE],
      [type |-> "form",        data |-> TRUE,  content |-> TRUE] }

\* The awaits of _handle_message's try block.
SuspensionPoints == {"route", "send_reply", "status", "send_status", "title", "send_saved"}

\* The awaits that send a message to the client.
SendPoints == {"send_reply", "send_status", "send_saved"}

\* The awaits of the except blocks.
HandlerPoints == {"send_cancelled", "send_error"}

\* append_history (51-58).
AppendHistory(h, role, req) ==
    LET h2 == Append(h, [role |-> role, req |-> req])
    IN  IF Len(h2) > 2 * MaxPairs
        THEN SubSeq(h2, Len(h2) - 2 * MaxPairs + 1, Len(h2))
        ELSE h2

\* count_user_messages (63-64).
CountUserMessages(h) == Cardinality({ i \in 1 .. Len(h) : h[i].role = "user" })

\* Whether the response carries a widget (344-360).
HasWidget(res) == (res.type = "tool_result" /\ res.data) \/ res.type = "form"

Msg(type, req, content, widget) ==
    [type |-> type, req |-> req, content |-> content, widget |-> widget]

\* The message the task is sending at a send point.
InFlight(t) ==
    CASE task_pc[t] = "send_reply"     -> Msg("message", t, "reply", HasWidget(task_result[t]))
      [] task_pc[t] = "send_status"    -> Msg("status_update", t, "", FALSE)
      [] task_pc[t] = "send_saved"     -> Msg("chat_saved", t, "", FALSE)
      [] task_pc[t] = "send_cancelled" -> Msg("message", t, "Cancelled.", FALSE)
      [] task_pc[t] = "send_error"     -> Msg("message", t, "error", FALSE)

ConnInit ==
    /\ RouterIdle
    /\ ConnIdle
    /\ BlastIdle
    /\ IngestIdle
    /\ ScanIdle
    /\ QuarIdle
    /\ ToolIdle
    /\ RouteIdle
    /\ HistIdle
    /\ PipeIdle
    /\ SearchIdle
    /\ WatchIdle
    /\ AdminIdle
    /\ ProgressIdle
    /\ ChatIdle

\* A content message: the task is created and its handle stored (265-297).
ReceiveContent ==
    /\ n_content < MaxContent
    /\ n_content' = n_content + 1
    /\ task_pc' = Append(task_pc, "created")
    /\ task_result' = Append(task_result, "none")
    /\ task_cancel' = Append(task_cancel, FALSE)
    /\ cancel_at' = Append(cancel_at, << >>)
    /\ manager_tasks' = n_content + 1
    /\ UNCHANGED << n_cancel, sent, history, chat >>

\* A cancel message: the task of the stored handle is cancelled (141-146).
ReceiveCancel ==
    /\ n_cancel < MaxCancel
    /\ n_cancel' = n_cancel + 1
    /\ IF manager_tasks # 0 /\ task_pc[manager_tasks] # "done"
       THEN /\ task_cancel' = [task_cancel EXCEPT ![manager_tasks] = TRUE]
            /\ cancel_at' = [cancel_at EXCEPT ![manager_tasks] =
                                Append(@, task_pc[manager_tasks])]
       ELSE UNCHANGED << task_cancel, cancel_at >>
    /\ UNCHANGED << n_content, task_pc, task_result, manager_tasks, sent, history, chat >>

\* Mutant of TaskStart: a cancellation requested before the first step is
\* lost, and the task enters route_input.
TaskStartDespiteCancel(t) ==
    /\ task_pc[t] = "created"
    /\ \A u \in Tasks : u < t => task_pc[u] # "created"
    /\ task_pc' = [task_pc EXCEPT ![t] = "route"]
    /\ task_cancel' = [task_cancel EXCEPT ![t] = FALSE]
    /\ UNCHANGED << n_content, n_cancel, task_result, cancel_at, manager_tasks,
                    sent, history, chat >>

\* The event loop runs the task's first step: it enters route_input (317-329).
\* First steps run in the order the tasks were created.  A task cancelled
\* before its first step never enters the try block.
TaskStart(t) ==
    /\ task_pc[t] = "created"
    /\ \A u \in Tasks : u < t => task_pc[u] # "created"
    /\ task_pc' = [task_pc EXCEPT ![t] = IF task_cancel[t] THEN "done" ELSE "route"]
    /\ task_cancel' = [task_cancel EXCEPT ![t] = FALSE]
    /\ UNCHANGED << n_content, n_cancel, task_result, cancel_at, manager_tasks,
                    sent, history, chat >>

\* route_input returns res: history and chat are updated, the response is
\* built, and the task awaits send_json (331-374).
RouteReturn(t, res) ==
    /\ task_pc[t] = "route"
    /\ ~task_cancel[t]
    /\ task_result' = [task_result EXCEPT ![t] = res]
    /\ history' =
          LET h1 == AppendHistory(history, "user", t)
          IN  IF res.content THEN AppendHistory(h1, "assistant", t) ELSE h1
    /\ chat' = IF res.type # "form"
               THEN [chat EXCEPT !.messages =
                        @ \o << [role |-> "user", req |-> t],
                                [role |-> "assistant", req |-> t] >>]
               ELSE chat
    /\ task_pc' = [task_pc EXCEPT ![t] = "send_reply"]
    /\ UNCHANGED << n_content, n_cancel, task_cancel, cancel_at, manager_tasks, sent >>

\* route_input raises: the except Exception block awaits send_json (407-412).
RouteRaise(t) ==
    /\ task_pc[t] = "route"
    /\ ~task_cancel[t]
    /\ task_pc' = [task_pc EXCEPT ![t] = "send_error"]
    /\ UNCHANGED << n_content, n_cancel, task_result, task_cancel, cancel_at,
                    manager_tasks, sent, history, chat >>

\* The finally block (413-414).
PopHandle(t) == 0

\* The auto-save step and what follows it (383-403, 413-414): the task
\* either awaits the title or ends.
AutoSaveThenEnd(t) ==
    IF CountUserMessages(history) >= save_threshold
    THEN IF ~chat.title_generated
         THEN /\ chat' = [chat EXCEPT !.id = IF @ = 0 THEN t ELSE @,
                                      !.title_generated = TRUE]
              /\ task_pc' = [task_pc EXCEPT ![t] = "title"]
              /\ UNCHANGED manager_tasks
         ELSE /\ chat' = [chat EXCEPT !.id = IF @ = 0 THEN t ELSE @]
              /\ task_pc' = [task_pc EXCEPT ![t] = "done"]
              /\ manager_tasks' = PopHandle(t)
    ELSE /\ UNCHANGED chat
         /\ task_pc' = [task_pc EXCEPT ![t] = "done"]
         /\ manager_tasks' = PopHandle(t)

\* The response is sent (374); after a tool result the status is queried.
SendReply(t) ==
    /\ task_pc[t] = "send_reply"
    /\ ~task_cancel[t]
    /\ sent' = Append(sent, InFlight(t))
    /\ IF task_result[t].type = "tool_result"
       THEN /\ task_pc' = [task_pc EXCEPT ![t] = "status"]
            /\ UNCHANGED << chat, manager_tasks >>
       ELSE AutoSaveThenEnd(t)
    /\ UNCHANGED << n_content, n_cancel, task_result, task_cancel, cancel_at, history >>

\* _quick_status returns (377-380).
QuickStatus(t) ==
    /\ task_pc[t] = "status"
    /\ ~task_cancel[t]
    /\ task_pc' = [task_pc EXCEPT ![t] = "send_status"]
    /\ UNCHANGED << n_content, n_cancel, task_result, task_cancel, cancel_at,
                    manager_tasks, sent, history, chat >>

\* The status update is sent (381).
SendStatus(t) ==
    /\ task_pc[t] = "send_status"
    /\ ~task_cancel[t]
    /\ sent' = Append(sent, InFlight(t))
    /\ AutoSaveThenEnd(t)
    /\ UNCHANGED << n_content, n_cancel, task_result, task_cancel, cancel_at, history >>

\* _generate_chat_title returns a title or None (396-403).
TitleReturn(t, titled) ==
    /\ task_pc[t] = "title"
    /\ ~task_cancel[t]
    /\ IF titled
       THEN /\ task_pc' = [task_pc EXCEPT ![t] = "send_saved"]
            /\ UNCHANGED manager_tasks
       ELSE /\ task_pc' = [task_pc EXCEPT ![t] = "done"]
            /\ manager_tasks' = PopHandle(t)
    /\ UNCHANGED << n_content, n_cancel, task_result, task_cancel, cancel_at,
                    sent, history, chat >>

\* chat_saved is sent; the task ends (399-403, 413-414).
SendSaved(t) ==
    /\ task_pc[t] = "send_saved"
    /\ ~task_cancel[t]
    /\ sent' = Append(sent, InFlight(t))
    /\ task_pc' = [task_pc EXCEPT ![t] = "done"]
    /\ manager_tasks' = PopHandle(t)
    /\ UNCHANGED << n_content, n_cancel, task_result, task_cancel, cancel_at,
                    history, chat >>

\* CancelledError is raised at the await of the try block the task is
\* suspended at; the except block awaits send_json (405-406).  A message
\* being sent at that await has reached the client or not.
CancelDeliver(t, delivered) ==
    /\ task_cancel[t]
    /\ task_pc[t] \in SuspensionPoints
    /\ delivered => task_pc[t] \in SendPoints
    /\ sent' = IF delivered THEN Append(sent, InFlight(t)) ELSE sent
    /\ task_pc' = [task_pc EXCEPT ![t] = "send_cancelled"]
    /\ task_cancel' = [task_cancel EXCEPT ![t] = FALSE]
    /\ UNCHANGED << n_content, n_cancel, task_result, cancel_at, manager_tasks,
                    history, chat >>

\* "Cancelled." or the error message is sent; the task ends (406, 409-414).
SendHandlerMessage(t) ==
    /\ task_pc[t] \in HandlerPoints
    /\ ~task_cancel[t]
    /\ sent' = Append(sent, InFlight(t))
    /\ task_pc' = [task_pc EXCEPT ![t] = "done"]
    /\ manager_tasks' = PopHandle(t)
    /\ UNCHANGED << n_content, n_cancel, task_result, task_cancel, cancel_at,
                    history, chat >>

\* CancelledError is raised at the await of an except block: the finally
\* block runs and the task ends (405-414).
CancelInHandler(t, delivered) ==
    /\ task_cancel[t]
    /\ task_pc[t] \in HandlerPoints
    /\ sent' = IF delivered THEN Append(sent, InFlight(t)) ELSE sent
    /\ task_pc' = [task_pc EXCEPT ![t] = "done"]
    /\ task_cancel' = [task_cancel EXCEPT ![t] = FALSE]
    /\ manager_tasks' = PopHandle(t)
    /\ UNCHANGED << n_content, n_cancel, task_result, cancel_at, history, chat >>

\* No request is in the agentic loop while the conductor is modelled.
ConnFrame == UNCHANGED << rvars, bvars, ivars, svars, qvars, tvars, dvars, hvars, pvars, xvars, wvars, avars, evars, kvars >>

ConnNext ==
    \/ ReceiveContent /\ ConnFrame
    \/ ReceiveCancel /\ ConnFrame
    \/ \E t \in Tasks : TaskStart(t) /\ ConnFrame
    \/ \E t \in Tasks, res \in RouteResults : RouteReturn(t, res) /\ ConnFrame
    \/ \E t \in Tasks : RouteRaise(t) /\ ConnFrame
    \/ \E t \in Tasks : SendReply(t) /\ ConnFrame
    \/ \E t \in Tasks : QuickStatus(t) /\ ConnFrame
    \/ \E t \in Tasks : SendStatus(t) /\ ConnFrame
    \/ \E t \in Tasks, titled \in BOOLEAN : TitleReturn(t, titled) /\ ConnFrame
    \/ \E t \in Tasks : SendSaved(t) /\ ConnFrame
    \/ \E t \in Tasks, delivered \in BOOLEAN : CancelDeliver(t, delivered) /\ ConnFrame
    \/ \E t \in Tasks : SendHandlerMessage(t) /\ ConnFrame
    \/ \E t \in Tasks, delivered \in BOOLEAN : CancelInHandler(t, delivered) /\ ConnFrame

SpecConn == ConnInit /\ [][ConnNext]_vars

----------------------------------------------------------------------------
\* The auto-pipe cache of _unified_loop (src/src/hive/tools/router.py
\* 247-322) and the summary that is sent to the LLM in its place
\* (src/src/hive/tools/base.py 89-93, 181-228).  One step is the processing
\* of one tool call of an assistant message.

\* A string of n characters; id tells the strings of one length apart
\* (0: written by the LLM, i: returned by the i-th tool call).
Str(n, i) == [kind |-> "str", len |-> n, id |-> i]

\* a number
Num(v) == [kind |-> "num", len |-> v, id |-> 0]

\* the lengths of the strings
StrLens == {50, 150, 250}

\* the configured thresholds (config.py:33, 35: plain integers)
PipeMinLengths == {100, 200}
TokenLimits == {10, 500}

\* the tools of the registry, all tagged "llm", none overriding
\* summary_for_llm, and the properties of their input schemas (base.py 73-81)
PipeTools == {"producer", "consumer"}
SchemaProps(t) == IF t = "consumer" THEN {"sequence"} ELSE {}

\* the values the LLM may give a parameter (None is dropped at 258)
ProvidedValues ==
    {NoValue, Str(0, 0), Num(0), Num(7)} \cup { Str(n, 0) : n \in StrLens }

\* the results of the i-th tool call: the fields in the mapping's order
PipeResults(i) ==
    { r \in SeqsUpTo(Keys \X { Str(n, i) : n \in StrLens }, MaxFields) :
        \A a, b \in 1 .. Len(r) : a # b => r[a][1] # r[b][1] }

\* "not provided" (285): None, "", 0
Falsy(v) == v.kind = "missing" \/ v.len = 0

\* Mutant of Inject: only a missing or empty value is replaced.
InjectWhenFalsy(provided, min) == Falsy(provided)

\* the test of the inject loop (285-287)
Inject(provided, min) ==
    Falsy(provided) \/ (provided.kind = "str" /\ provided.len < min)

\* the params the tool is executed with (280-289)
InjectedParams(t, provided, c, min) ==
    [ k \in SchemaProps(t) |->
        IF c[k] # NoValue /\ Inject(provided[k], min) THEN c[k] ELSE provided[k] ]

\* the stash test (296)
Stashes(v, min) == v.kind = "str" /\ v.len >= min

\* the fields of result r that are stashed, in order (295-297)
RECURSIVE StashedOf(_, _)
StashedOf(r, min) ==
    IF r = << >> THEN << >>
    ELSE (IF Stashes(r[1][2], min) THEN << r[1] >> ELSE << >>) \o StashedOf(Tail(r), min)

\* the cache after the stashes st
RECURSIVE CacheAfter(_, _)
CacheAfter(c, st) ==
    IF st = << >> THEN c
    ELSE CacheAfter([c EXCEPT ![st[1][1]] = st[1][2]], Tail(st))

KeyLen(k) == Len(k)

\* the characters _auto_summarize keeps of a string (210-214):
\* all of a string shorter than 200, the first 100 and "..." otherwise
KeptChars(v) == IF v.len < 200 THEN v.len ELSE 100
ShownLen(v) == IF v.len < 200 THEN v.len ELSE 100 + 3

\* The layout of json.dumps(stats) (226): for each field of r, in order,
\* the value, the position of its first character in the text and the
\* number of its characters that the text holds.  at is the length of the
\* text before the field.
RECURSIVE Layout(_, _)
Layout(r, at) ==
    IF r = << >> THEN << >>
    ELSE LET sep   == IF at = 0 THEN 1 ELSE at + 2
             start == sep + KeyLen(r[1][1]) + 5
         IN  << [key |-> r[1][1], val |-> r[1][2], start |-> start,
                 kept |-> KeptChars(r[1][2])] >>
             \o Layout(Tail(r), start + ShownLen(r[1][2]) + 1)

\* the cut of the text to max_chars characters (227-228): what is left of
\* each value
Cut(lay, max_chars) ==
    [ i \in 1 .. Len(lay) |->
        [key |-> lay[i].key, val |-> lay[i].val,
         kept |-> IF lay[i].start + lay[i].kept <= max_chars THEN lay[i].kept
                  ELSE IF lay[i].start >= max_chars THEN 0
                  ELSE max_chars - lay[i].start] ]

\* summary_for_llm(result, token_limit) (base.py 89-93)
summary_for_llm(r, token_limit) == Cut(Layout(r, 0), token_limit * 4)

\* the length of json.dumps(stats) (226)
TextLen(r) ==
    IF r = << >> THEN 2
    ELSE LET lay == Layout(r, 0)
             l   == lay[Len(lay)]
         IN  l.start + ShownLen(l.val) + 2

\* Mutant of SummaryLen: the text is returned as serialized.
SummaryLenUncut(r, token_limit) == TextLen(r)

\* the length of the text summary_for_llm returns (base.py 91-93, 226-228):
\* a text longer than max_chars is cut to max_chars characters and "..."
SummaryLen(r, token_limit) ==
    IF TextLen(r) > token_limit * 4 THEN token_limit * 4 + 3 ELSE TextLen(r)

PipeInit ==
    /\ RouterIdle
    /\ ConnIdle
    /\ BlastIdle
    /\ IngestIdle
    /\ ScanIdle
    /\ QuarIdle
    /\ ToolIdle
    /\ RouteIdle
    /\ HistIdle
    /\ SearchIdle
    /\ WatchIdle
    /\ AdminIdle
    /\ ProgressIdle
    /\ ChatIdle
    /\ pipe_min_length \in PipeMinLengths
    /\ summary_token_limit \in TokenLimits
    /\ cache = [k \in Keys |-> NoValue]
    /\ stashed = << >>
    /\ tool_msgs = << >>
    /\ call_rec = NoCallRec
    /\ n_calls = 0
    /\ summary_len = -1

\* A call of a name that is not in tool_map (269-275).
PipeUnknownTool ==
    /\ n_calls < MaxPipeCalls
    /\ n_calls' = n_calls + 1
    /\ tool_msgs' = Append(tool_msgs, << >>)
    /\ UNCHANGED << pipe_min_length, summary_token_limit, cache, stashed, call_rec,
                    summary_len >>

\* A call of tool t with the arguments provided, whose execute returns r
\* (277-322).
PipeToolCall(t, provided, r) ==
    /\ n_calls < MaxPipeCalls
    /\ n_calls' = n_calls + 1
    /\ call_rec' = [tool |-> t, provided |-> provided, before |-> stashed,
                    params |-> InjectedParams(t, provided, cache, pipe_min_length)]
    /\ cache' = CacheAfter(cache, StashedOf(r, pipe_min_length))
    /\ stashed' = stashed \o StashedOf(r, pipe_min_length)
    /\ tool_msgs' = Append(tool_msgs, summary_for_llm(r, summary_token_limit))
    /\ summary_len' = SummaryLen(r, summary_token_limit)
    /\ UNCHANGED << pipe_min_length, summary_token_limit >>

PipeFrame == UNCHANGED << rvars, cvars, bvars, ivars, svars, qvars, tvars, dvars, hvars, xvars, wvars, avars, evars, kvars >>

PipeNext ==
    \/ PipeUnknownTool /\ PipeFrame
    \/ \E t \in PipeTools : \E provided \in [SchemaProps(t) -> ProvidedValues] :
         \E r \in PipeResults(n_calls + 1) : PipeToolCall(t, provided, r) /\ PipeFrame

SpecPipe == PipeInit /\ [][PipeNext]_vars


----------------------------------------------------------------------------
\* The command line of a BLAST search (src/src/hive/tools/blast.py 165-201,
\* src/src/hive/deps/blast.py 144-203).  An argument is a token: a text with
\* or without a leading dash.

Tok(dash, text) == [dash |-> dash, text |-> text]
Flag(key) == Tok(TRUE, key)
Val(text) == Tok(FALSE, text)

\* the blocked parameter keys (deps/blast.py 180-185)
blocked ==
    {"outfmt", "out", "query", "db", "remote", "html",
     "import_search_strategy", "export_search_strategy",
     "gilist", "negative_gilist", "seqidlist", "negative_seqidlist",
     "entrez_query", "blastdb_version"}

\* options of the BLAST+ programs that take no argument
Switches == {"lcase_masking", "remote", "html"}

\* the keys and the values (strings: extra is dict[str, str], tools/blast.py:62)
\* a caller may place in extra, and the values of the task field
ExtraKeys == {"out", "remote", "query", "lcase_masking", "perc_identity"}
ExtraValues == {Val("90"), Tok(TRUE, "remote"), Tok(TRUE, "query")}
TaskValues == {Val("none"), Val("megablast"), Tok(TRUE, "remote")}

\* the extra mappings: pairs with distinct keys, in insertion order
Extras ==
    { e \in SeqsUpTo(ExtraKeys \X ExtraValues, MaxExtra) :
        \A a, b \in 1 .. Len(e) : a # b => e[a][1] # e[b][1] }

HasKey(d, k) == \E i \in 1 .. Len(d) : d[i][1] = k

\* dict.__setitem__: a present key keeps its place
SetItem(d, k, v) ==
    IF HasKey(d, k)
    THEN [ i \in 1 .. Len(d) |-> IF d[i][1] = k THEN << k, v >> ELSE d[i] ]
    ELSE Append(d, << k, v >>)

\* dict.update(e)
RECURSIVE Update(_, _)
Update(d, e) ==
    IF e = << >> THEN d ELSE Update(SetItem(d, e[1][1], e[1][2]), Tail(e))

\* dict.setdefault
SetDefault(d, k, v) == IF HasKey(d, k) THEN d ELSE Append(d, << k, v >>)

\* the search parameters of BlastTool.execute (tools/blast.py 165-195) for a
\* request with the given task field and extra mapping; short: a blastn
\* query of less than 30 characters
SearchParams(task, extra, short) ==
    LET named  == << << "evalue", Val("evalue") >>,
                     << "max_target_seqs", Val("max_hits") >> >>
                  \o (IF task # Val("none") THEN << << "task", task >> >> ELSE << >>)
        merged == Update(named, extra)
    IN  IF short /\ ~HasKey(merged, "task")
        THEN SetDefault(SetDefault(Append(merged, << "task", Val("blastn-short") >>),
                                   "word_size", Val("7")), "dust", Val("no"))
        ELSE merged

\* the loop over params (deps/blast.py 186-194): the values are strings
RECURSIVE AppendParams(_, _)
AppendParams(c, ps) ==
    IF ps = << >> THEN c
    ELSE IF ps[1][1] \in blocked
         THEN AppendParams(c, Tail(ps))
         ELSE AppendParams(c \o << Flag(ps[1][1]), ps[1][2] >>, Tail(ps))

\* the server-chosen part of the command line (deps/blast.py 170-177)
BaseCmd ==
    << Val("binary"), Flag("query"), Val("query_file"), Flag("db"), Val("db_file"),
       Flag("outfmt"), Val("6 sseqid ...") >>

SearchInit ==
    /\ RouterIdle
    /\ ConnIdle
    /\ BlastIdle
    /\ IngestIdle
    /\ ScanIdle
    /\ QuarIdle
    /\ ToolIdle
    /\ RouteIdle
    /\ HistIdle
    /\ PipeIdle
    /\ SearchIdle
    /\ WatchIdle
    /\ AdminIdle
    /\ ProgressIdle
    /\ ChatIdle

\* BlastTool.execute builds the parameters and calls run_search
\* (tools/blast.py 165-201).
BlastExecute(task, extra, short) ==
    /\ search_pc = "idle"
    /\ search_params' = SearchParams(task, extra, short)
    /\ search_pc' = "call"
    /\ UNCHANGED cmd

\* run_search builds the command line and starts the process
\* (deps/blast.py 164-202).
RunSearch ==
    /\ search_pc = "call"
    /\ cmd' = AppendParams(BaseCmd, search_params)
    /\ search_pc' = "exec"
    /\ UNCHANGED search_params

\* The process ends and the request is answered (deps/blast.py 203-240).
SearchEnds ==
    /\ search_pc = "exec"
    /\ search_pc' = "done"
    /\ UNCHANGED << search_params, cmd >>

SearchFrame == UNCHANGED << rvars, cvars, bvars, ivars, svars, qvars, tvars, dvars, hvars, pvars, wvars, avars, evars, kvars >>

SearchNext ==
    \/ \E task \in TaskValues, extra \in Extras, short \in BOOLEAN :
         BlastExecute(task, extra, short) /\ SearchFrame
    \/ RunSearch /\ SearchFrame
    \/ SearchEnds /\ SearchFrame

SpecSearch == SearchInit /\ [][SearchNext]_vars


----------------------------------------------------------------------------
\* The watcher task: startup scan, then the watch loop
\* (src/src/hive/watcher/watcher.py), and the index build it schedules
\* (src/src/hive/deps/blast.py 36-84).  One server process; every file is
\* parseable.

\* contents of a file (0: the file does not exist)
WatchContents == {0, 1, 2}

WatchInit ==
    /\ RouterIdle
    /\ ConnIdle
    /\ BlastIdle
    /\ IngestIdle
    /\ ScanIdle
    /\ QuarIdle
    /\ ToolIdle
    /\ RouteIdle
    /\ HistIdle
    /\ PipeIdle
    /\ SearchIdle
    /\ AdminIdle
    /\ ProgressIdle
    /\ ChatIdle
    /\ w_fs \in [WatchPaths -> WatchContents]
    /\ w_store = [p \in WatchPaths |-> 0]
    /\ w_index = [p \in WatchPaths |-> 0]
    /\ w_events = << >>
    /\ w_changes = 0
    /\ wpc = "scan"

\* scan_and_ingest (16-93): every file found is ingested and committed; the
\* startup task then always builds the index
\* (src/src/hive/server/app.py 72-84).
StartupScan ==
    /\ wpc = "scan"
    /\ w_store' = w_fs
    /\ wpc' = "scan_build"
    /\ UNCHANGED << w_fs, w_index, w_events, w_changes >>

\* A file is created, modified or deleted while the watch loop runs (the
\* loop starts when the scan has returned); awatch delivers the change.
FsChange(p, c) ==
    /\ wpc \in {"idle", "building"}
    /\ w_changes < MaxChanges
    /\ c # w_fs[p]
    /\ w_changes' = w_changes + 1
    /\ w_fs' = [w_fs EXCEPT ![p] = c]
    /\ w_events' = Append(w_events, << IF c = 0 THEN "deleted" ELSE "changed", p >>)
    /\ UNCHANGED << w_store, w_index, wpc >>

\* Change.deleted: remove_file, then the next change (117-121).
ProcessDeleted ==
    /\ wpc = "idle"
    /\ w_events # << >>
    /\ w_events[1][1] = "deleted"
    /\ w_store' = [w_store EXCEPT ![w_events[1][2]] = 0]
    /\ w_events' = Tail(w_events)
    /\ UNCHANGED << w_fs, w_index, w_changes, wpc >>

\* A created or modified path: skipped if it is no file (123-124), else
\* ingested, and build_blast_index is awaited (128-134).
ProcessChanged ==
    /\ wpc = "idle"
    /\ w_events # << >>
    /\ w_events[1][1] = "changed"
    /\ w_events' = Tail(w_events)
    /\ IF w_fs[w_events[1][2]] = 0
       THEN UNCHANGED << w_store, wpc >>
       ELSE /\ w_store' = [w_store EXCEPT ![w_events[1][2]] = w_fs[w_events[1][2]]]
            /\ wpc' = "building"
    /\ UNCHANGED << w_fs, w_index, w_changes >>

\* build_index returns: the index holds the active sequences of the store,
\* and there is no index when there is none (deps/blast.py 36-90).
BuildDone ==
    /\ wpc \in {"scan_build", "building"}
    /\ w_index' = w_store
    /\ wpc' = "idle"
    /\ UNCHANGED << w_fs, w_store, w_events, w_changes >>

WatchFrame == UNCHANGED << rvars, cvars, bvars, ivars, svars, qvars, tvars, dvars, hvars, pvars, xvars, avars, evars, kvars >>

WatchNext ==
    \/ StartupScan /\ WatchFrame
    \/ \E p \in WatchPaths, c \in WatchContents : FsChange(p, c) /\ WatchFrame
    \/ ProcessDeleted /\ WatchFrame
    \/ ProcessChanged /\ WatchFrame
    \/ BuildDone /\ WatchFrame

SpecWatch == WatchInit /\ [][WatchNext]_vars


----------------------------------------------------------------------------
\* The watcher task of the server process: created by lifespan
\* (src/src/hive/server/app.py 66-94), started and stopped by the admin
\* routes (src/src/hive/admin/routes.py 102-147).  Request handlers and
\* tasks interleave at their awaits.

\* task.done()
TaskDone(t) == a_task[t] = "done"

\* the watch loops (watch_directory) that are running
WatchLoops == { t \in 1 .. Len(a_task) : a_task[t] = "watching" }

AdminInit ==
    /\ RouterIdle
    /\ ConnIdle
    /\ BlastIdle
    /\ IngestIdle
    /\ ScanIdle
    /\ QuarIdle
    /\ ToolIdle
    /\ RouteIdle
    /\ HistIdle
    /\ PipeIdle
    /\ SearchIdle
    /\ WatchIdle
    /\ ProgressIdle
    /\ ChatIdle
    /\ a_req = << >>
    /\ \/ /\ a_task = << "scanning" >>
          /\ watcher_task = 1
       \/ /\ a_task = << >>
          /\ watcher_task = 0

\* _scan_then_watch: the scan and the index build have returned, the task
\* enters watch_directory (app.py 72-91).
ScanThenWatch(t) ==
    /\ a_task[t] = "scanning"
    /\ a_task' = [a_task EXCEPT ![t] = "watching"]
    /\ UNCHANGED << watcher_task, a_req >>

\* CancelledError is raised in the task: it ends.
TaskCancelled(t) ==
    /\ a_task[t] = "cancelling"
    /\ a_task' = [a_task EXCEPT ![t] = "done"]
    /\ UNCHANGED << watcher_task, a_req >>

\* watcher_start finds a running task (routes.py 109-111)
StartChecks == watcher_task # 0 /\ ~TaskDone(watcher_task)

\* POST /watcher/start up to its first await (routes.py 102-116): it answers
\* already_running or awaits scan_and_ingest.
StartReceived ==
    /\ Len(a_req) < MaxReqs
    /\ a_req' = Append(a_req, [kind |-> "start",
                               pc |-> IF StartChecks THEN "done" ELSE "scan",
                               target |-> 0])
    /\ UNCHANGED << watcher_task, a_task >>

\* scan_and_ingest has returned: the task is created and stored
\* (routes.py 118-124).
StartCreatesTask(r) ==
    /\ a_req[r].kind = "start"
    /\ a_req[r].pc = "scan"
    /\ a_task' = Append(a_task, "watching")
    /\ watcher_task' = Len(a_task) + 1
    /\ a_req' = [a_req EXCEPT ![r].pc = "done"]

\* POST /watcher/stop up to its await (routes.py 128-141): it answers
\* not_running, or cancels the stored task and awaits it.
StopReceived ==
    /\ Len(a_req) < MaxReqs
    /\ IF watcher_task = 0 \/ TaskDone(watcher_task)
       THEN /\ a_req' = Append(a_req, [kind |-> "stop", pc |-> "done", target |-> 0])
            /\ UNCHANGED a_task
       ELSE /\ a_req' = Append(a_req, [kind |-> "stop", pc |-> "await",
                                       target |-> watcher_task])
            /\ a_task' = [a_task EXCEPT ![watcher_task] = "cancelling"]
    /\ UNCHANGED watcher_task

\* The awaited task has ended: the handle is cleared (routes.py 141-147).
StopClears(r) ==
    /\ a_req[r].kind = "stop"
    /\ a_req[r].pc = "await"
    /\ TaskDone(a_req[r].target)
    /\ watcher_task' = 0
    /\ a_req' = [a_req EXCEPT ![r].pc = "done"]
    /\ UNCHANGED a_task

AdminFrame == UNCHANGED << rvars, cvars, bvars, ivars, svars, qvars, tvars, dvars, hvars, pvars, xvars, wvars, evars, kvars >>

AdminNext ==
    \/ \E t \in 1 .. Len(a_task) : ScanThenWatch(t) /\ AdminFrame
    \/ \E t \in 1 .. Len(a_task) : TaskCancelled(t) /\ AdminFrame
    \/ StartReceived /\ AdminFrame
    \/ \E r \in 1 .. Len(a_req) : StartCreatesTask(r) /\ AdminFrame
    \/ StopReceived /\ AdminFrame
    \/ \E r \in 1 .. Len(a_req) : StopClears(r) /\ AdminFrame

SpecAdmin == AdminInit /\ [][AdminNext]_vars


----------------------------------------------------------------------------
\* Progress events of _unified_loop (src/src/hive/tools/router.py 173-180,
\* 291, 323).  The LLM's replies are fixed by a script, max_turns is the
\* script's length, every called tool is registered and no narrowing
\* applies; what varies is what on_progress does with each event.

\* the replies of one run
Scripts == { s \in SeqsUpTo({"text", "search", "extract"}, MaxScript) : Len(s) >= 1 }

\* what the callback does with an event
CallbackOutcomes == {"delivers", "drops", "fails"}

\* The run of the loop without a callback (on_progress = None, 174): LLM
\* calls made, tools executed and response for the replies s from turn t on.
RECURSIVE RunWithoutCallback(_, _, _)
RunWithoutCallback(s, t, tools) ==
    IF t > Len(s) THEN [llm_calls |-> Len(s), tools |-> tools, resp |-> "fallback"]
    ELSE IF s[t] = "text" THEN [llm_calls |-> t, tools |-> tools, resp |-> "text"]
    ELSE RunWithoutCallback(s, t + 1, Append(tools, s[t]))

ProgressInit ==
    /\ RouterIdle
    /\ ConnIdle
    /\ BlastIdle
    /\ IngestIdle
    /\ ScanIdle
    /\ QuarIdle
    /\ ToolIdle
    /\ RouteIdle
    /\ HistIdle
    /\ PipeIdle
    /\ SearchIdle
    /\ WatchIdle
    /\ AdminIdle
    /\ ChatIdle
    /\ script \in Scripts
    /\ e_pc = "emit_start"
    /\ e_turn = 0
    /\ e_llm_calls = 0
    /\ e_tools = << >>
    /\ e_resp = "none"
    /\ e_events = << >>

\* where the run goes on after the emit it is at (180, 291, 323)
AfterEmit ==
    CASE e_pc = "emit_start"    -> IF e_turn < Len(script) THEN "llm" ELSE "done"
      [] e_pc = "emit_tool"     -> "exec"
      [] e_pc = "emit_thinking" -> "llm"

\* await on_progress(data) is not guarded (178): what the callback raises
\* leaves _emit and the loop
EmitRaises(cb) == cb = "fails"

\* _emit (173-178): the callback is awaited.
Emit(cb) ==
    /\ e_pc \in {"emit_start", "emit_tool", "emit_thinking"}
    /\ e_events' = IF cb = "delivers"
                   THEN Append(e_events, IF e_pc = "emit_tool" THEN "tool" ELSE "thinking")
                   ELSE e_events
    /\ IF EmitRaises(cb)
       THEN /\ e_pc' = "raised"
            /\ UNCHANGED << e_turn, e_resp >>
       ELSE IF e_pc = "emit_thinking" /\ e_turn + 1 >= Len(script)
            THEN /\ e_pc' = "done"
                 /\ e_turn' = e_turn + 1
                 /\ e_resp' = "fallback"
            ELSE /\ e_pc' = AfterEmit
                 /\ e_turn' = IF e_pc = "emit_thinking" THEN e_turn + 1 ELSE e_turn
                 /\ UNCHANGED e_resp
    /\ UNCHANGED << script, e_llm_calls, e_tools >>

\* The LLM is called and replies (196-252): a text turn ends the run, a
\* tool call goes on to the emit before its execution.
LLMReplies ==
    /\ e_pc = "llm"
    /\ e_llm_calls' = e_llm_calls + 1
    /\ IF script[e_turn + 1] = "text"
       THEN /\ e_pc' = "done"
            /\ e_resp' = "text"
       ELSE /\ e_pc' = "emit_tool"
            /\ UNCHANGED e_resp
    /\ UNCHANGED << script, e_turn, e_tools, e_events >>

\* The tool is executed (292-322).
ToolRuns ==
    /\ e_pc = "exec"
    /\ e_tools' = Append(e_tools, script[e_turn + 1])
    /\ e_pc' = "emit_thinking"
    /\ UNCHANGED << script, e_turn, e_llm_calls, e_resp, e_events >>

ProgressFrame == UNCHANGED << rvars, cvars, bvars, ivars, svars, qvars, tvars, dvars, hvars, pvars, xvars, wvars, avars, kvars >>

ProgressNext ==
    \/ \E cb \in CallbackOutcomes : Emit(cb) /\ ProgressFrame
    \/ LLMReplies /\ ProgressFrame
    \/ ToolRuns /\ ProgressFrame

SpecProgress == ProgressInit /\ [][ProgressNext]_vars


----------------------------------------------------------------------------
\* The current chat and the chat storage (src/src/hive/server/websocket.py
\* 103, 208-235, 383-403; src/src/hive/chat/storage.py).  The steps of the
\* tasks are those of the conductor above; here the storage they write and
\* the load_chat message are followed as well.

\* a chat saved by an earlier connection
OldChat == MaxContent + 1

\* new_chat_id of request t is t
ChatIds == 1 .. OldChat

\* the title the earlier connection stored
OldTitle == -1

ChatInit ==
    /\ RouterIdle
    /\ ConnIdle
    /\ BlastIdle
    /\ IngestIdle
    /\ ScanIdle
    /\ QuarIdle
    /\ ToolIdle
    /\ RouteIdle
    /\ HistIdle
    /\ PipeIdle
    /\ SearchIdle
    /\ WatchIdle
    /\ AdminIdle
    /\ ProgressIdle
    /\ store = [c \in ChatIds |->
                  IF c = OldChat
                  THEN [saved |-> TRUE, title |-> OldTitle,
                        messages |-> << [role |-> "user", req |-> 0],
                                        [role |-> "assistant", req |-> 0] >>]
                  ELSE [saved |-> FALSE, title |-> 0, messages |-> << >>]]
    /\ title_asks = [c \in ChatIds |-> 0]
    /\ recv_chat = << >>
    /\ fresh_id = 0
    /\ pre_hist = << >>
    /\ pre_msgs = << >>
    /\ n_loads = 0

ChatKeeps == UNCHANGED kvars

\* What the receive loop sees when it creates the task (265-297).
ChatReceive ==
    /\ recv_chat' = Append(recv_chat, chat.id)
    /\ pre_hist' = Append(pre_hist, history)
    /\ pre_msgs' = Append(pre_msgs, chat.messages)
    /\ UNCHANGED << store, title_asks, fresh_id, n_loads >>

\* ChatStorage.save (32-60): the messages are written, the title is kept.
Save(st, c, msgs) == [st EXCEPT ![c] = [saved |-> TRUE, title |-> @.title, messages |-> msgs]]

\* ChatStorage.update_title (73-79): only a saved chat gets the title.
UpdateTitle(st, c, title) == IF st[c].saved THEN [st EXCEPT ![c].title = title] ELSE st

\* The storage side of the auto-save step (384-398), taken by the step of
\* task t that reaches it.
ChatAutoSave(t) ==
    IF task_pc'[t] \in {"title", "done"} /\ CountUserMessages(history) >= save_threshold
    THEN /\ store' = Save(store, chat'.id, chat.messages)
         /\ title_asks' = IF task_pc'[t] = "title"
                          THEN [title_asks EXCEPT ![chat'.id] = @ + 1]
                          ELSE title_asks
         /\ fresh_id' = IF chat.id = 0 THEN chat'.id ELSE fresh_id
         /\ UNCHANGED << recv_chat, pre_hist, pre_msgs, n_loads >>
    ELSE ChatKeeps

\* The storage side of the title's return (397-398): chat["id"] is read
\* after the await.
ChatTitle(t, titled) ==
    /\ store' = IF titled THEN UpdateTitle(store, chat.id, t) ELSE store
    /\ UNCHANGED << title_asks, recv_chat, fresh_id, pre_hist, pre_msgs, n_loads >>

\* A load_chat message for a saved chat (209-235): the chat record and the
\* history are replaced in place and chat_loaded is sent.
LoadChat(c) ==
    /\ n_loads < MaxLoads
    /\ store[c].saved
    /\ n_loads' = n_loads + 1
    /\ chat' = [id |-> c, messages |-> store[c].messages,
                title_generated |-> store[c].title # 0]
    /\ history' = store[c].messages
    /\ sent' = Append(sent, Msg("chat_loaded", 0, "", FALSE))
    /\ UNCHANGED << n_content, n_cancel, task_pc, task_result, task_cancel, cancel_at,
                    manager_tasks >>
    /\ UNCHANGED << store, title_asks, recv_chat, fresh_id, pre_hist, pre_msgs >>

ChatFrame == UNCHANGED << rvars, bvars, ivars, svars, qvars, tvars, dvars, hvars, pvars, xvars, wvars, avars, evars >>

ChatNext ==
    \/ ReceiveContent /\ ChatReceive /\ ChatFrame
    \/ ReceiveCancel /\ ChatKeeps /\ ChatFrame
    \/ \E c \in ChatIds : LoadChat(c) /\ ChatFrame
    \/ \E t \in Tasks : TaskStart(t) /\ ChatKeeps /\ ChatFrame
    \/ \E t \in Tasks, res \in RouteResults : RouteReturn(t, res) /\ ChatKeeps /\ ChatFrame
    \/ \E t \in Tasks : RouteRaise(t) /\ ChatKeeps /\ ChatFrame
    \/ \E t \in Tasks : SendReply(t) /\ ChatAutoSave(t) /\ ChatFrame
    \/ \E t \in Tasks : QuickStatus(t) /\ ChatKeeps /\ ChatFrame
    \/ \E t \in Tasks : SendStatus(t) /\ ChatAutoSave(t) /\ ChatFrame
    \/ \E t \in Tasks, titled \in BOOLEAN : TitleReturn(t, titled) /\ ChatTitle(t, titled) /\ ChatFrame
    \/ \E t \in Tasks : SendSaved(t) /\ ChatKeeps /\ ChatFrame
    \/ \E t \in Tasks, delivered \in BOOLEAN : CancelDeliver(t, delivered) /\ ChatKeeps /\ ChatFrame
    \/ \E t \in Tasks : SendHandlerMessage(t) /\ ChatKeeps /\ ChatFrame
    \/ \E t \in Tasks, delivered \in BOOLEAN : CancelInHandler(t, delivered) /\ ChatKeeps /\ ChatFrame

SpecChat == ChatInit /\ [][ChatNext]_vars

----------------------------------------------------------------------------
\* The conversation history of one connection, message by message
\* (src/src/hive/server/websocket.py).  manager.histories[conn_id] changes in
\* two places: _handle_message appends to it after route_input has returned
\* (332-339, no await in between), and a load_chat message replaces it
\* (209-220).  A cancel message stops a task before or after that, and
\* changes nothing by itself.

\* the messages of a chat of n messages saved by an earlier connection
SavedMessages(n) ==
    [ i \in 1 .. n |-> [role |-> IF i % 2 = 1 THEN "user" ELSE "assistant", req |-> 0 - i] ]

\* the history made of a saved chat's messages (217-220)
LoadedHistory(msgs) == msgs

HistInit ==
    /\ RouterIdle
    /\ ConnIdle
    /\ BlastIdle
    /\ IngestIdle
    /\ ScanIdle
    /\ QuarIdle
    /\ ToolIdle
    /\ RouteIdle
    /\ HistIdle
    /\ PipeIdle
    /\ SearchIdle
    /\ WatchIdle
    /\ AdminIdle
    /\ ProgressIdle
    /\ ChatIdle

HistKeeps == UNCHANGED << n_content, n_cancel, task_pc, task_result, task_cancel,
                          cancel_at, manager_tasks, sent >>

\* A content message whose route_input returns res (331-339).
HistContent(res) ==
    /\ h_count < MaxMsgs
    /\ h_count' = h_count + 1
    /\ history' =
          LET h1 == AppendHistory(history, "user", h_count + 1)
          IN  IF res.content THEN AppendHistory(h1, "assistant", h_count + 1) ELSE h1
    /\ h_all' =
          LET a1 == Append(h_all, [role |-> "user", req |-> h_count + 1])
          IN  IF res.content THEN Append(a1, [role |-> "assistant", req |-> h_count + 1]) ELSE a1
    /\ chat' = IF res.type # "form"
               THEN [chat EXCEPT !.messages =
                        @ \o << [role |-> "user", req |-> h_count + 1],
                                [role |-> "assistant", req |-> h_count + 1] >>]
               ELSE chat
    /\ HistKeeps

\* A content message whose task is cancelled (a cancel message, 141-146)
\* while route_input runs, or whose route_input raises: nothing is appended.
HistContentCancelled ==
    /\ h_count < MaxMsgs
    /\ h_count' = h_count + 1
    /\ UNCHANGED << history, h_all, chat >>
    /\ HistKeeps

\* A load_chat message for a saved chat of n messages (209-220).
HistLoadChat(n) ==
    /\ n >= 1
    /\ chat' = [chat EXCEPT !.id = 1, !.messages = SavedMessages(n),
                            !.title_generated = TRUE]
    /\ history' = LoadedHistory(SavedMessages(n))
    /\ h_all' = SavedMessages(n)
    /\ UNCHANGED h_count
    /\ HistKeeps

HistFrame == UNCHANGED << rvars, bvars, ivars, svars, qvars, tvars, dvars, pvars, xvars, wvars, avars, evars, kvars >>

HistNext ==
    \/ \E res \in RouteResults : HistContent(res) /\ HistFrame
    \/ HistContentCancelled /\ HistFrame
    \/ \E n \in 1 .. MaxSaved : HistLoadChat(n) /\ HistFrame

SpecHistory == HistInit /\ [][HistNext]_vars

----------------------------------------------------------------------------
\* The BLAST index builder and search: src/src/hive/deps/blast.py
\* The callers of build_index may be different server processes, so each
\* file-system call is a step of its own.

\* A lock file left behind by a process that no longer runs.
OldLock == [owner |-> -1, stale |-> FALSE]

\* The steps inside _do_build_index.
RebuildPoints == {"rm_old", "query", "makeblastdb"}

BlastInit ==
    /\ RouterIdle
    /\ ConnIdle
    /\ IngestIdle
    /\ ScanIdle
    /\ QuarIdle
    /\ ToolIdle
    /\ RouteIdle
    /\ HistIdle
    /\ PipeIdle
    /\ SearchIdle
    /\ WatchIdle
    /\ AdminIdle
    /\ ProgressIdle
    /\ ChatIdle
    /\ lock_file \in { NoLock, OldLock, [OldLock EXCEPT !.stale = TRUE] }
    /\ index_files \in {"absent", "complete"}
    /\ ever_built = (index_files = "complete")
    /\ bpc = [p \in Builders |-> "idle"]
    /\ created = [p \in Builders |-> FALSE]
    /\ exit_kind = [p \in Builders |-> "none"]
    /\ last_search = [outcome |-> "none", built_before |-> FALSE]

\* Time passes: the lock file becomes older than 600 seconds (56).  No
\* caller is between two of its file-system calls for that long.
LockAges ==
    /\ lock_file.owner # 0
    /\ \A p \in Builders : bpc[p] \in {"idle", "done", "query", "makeblastdb"}
    /\ ~lock_file.stale
    /\ lock_file' = [lock_file EXCEPT !.stale = TRUE]
    /\ UNCHANGED << index_files, bpc, created, exit_kind, ever_built, last_search >>

\* build_index is called; lock_file.exists() is evaluated (44-53).
BuildStart(p) ==
    /\ bpc[p] \in {"idle", "done"}
    /\ created' = [created EXCEPT ![p] = FALSE]
    /\ exit_kind' = [exit_kind EXCEPT ![p] = "none"]
    /\ bpc' = [bpc EXCEPT ![p] = IF lock_file.owner # 0 THEN "stat" ELSE "create"]
    /\ UNCHANGED << lock_file, index_files, ever_built, last_search >>

\* lock_file.stat() and the age test (55-56); stat raises when the file is
\* gone.
BuildStat(p) ==
    /\ bpc[p] = "stat"
    /\ IF lock_file.owner = 0
       THEN /\ bpc' = [bpc EXCEPT ![p] = "done"]
            /\ exit_kind' = [exit_kind EXCEPT ![p] = "exception"]
       ELSE /\ bpc' = [bpc EXCEPT ![p] = IF lock_file.stale THEN "unlink" ELSE "create"]
            /\ UNCHANGED exit_kind
    /\ UNCHANGED << lock_file, index_files, created, ever_built, last_search >>

\* The stale lock is removed: lock_file.unlink(missing_ok=True) (58).
BuildUnlinkStale(p) ==
    /\ bpc[p] = "unlink"
    /\ lock_file' = NoLock
    /\ bpc' = [bpc EXCEPT ![p] = "create"]
    /\ UNCHANGED << index_files, created, exit_kind, ever_built, last_search >>

\* lock_file.open("x"): the lock is created, or the call returns True
\* because the file exists (61-65).
BuildCreateLock(p) ==
    /\ bpc[p] = "create"
    /\ IF lock_file.owner # 0
       THEN /\ bpc' = [bpc EXCEPT ![p] = "done"]
            /\ exit_kind' = [exit_kind EXCEPT ![p] = "skipped"]
            /\ UNCHANGED << lock_file, created >>
       ELSE /\ lock_file' = [owner |-> p, stale |-> FALSE]
            /\ created' = [created EXCEPT ![p] = TRUE]
            /\ bpc' = [bpc EXCEPT ![p] = "rm_old"]
            /\ UNCHANGED exit_kind
    /\ UNCHANGED << index_files, ever_built, last_search >>

\* The old index files are removed before the rebuild (74-78).
BuildRemoveOld(p) ==
    /\ bpc[p] = "rm_old"
    /\ index_files' = "absent"
    /\ bpc' = [bpc EXCEPT ![p] = "query"]
    /\ UNCHANGED << lock_file, created, exit_kind, ever_built, last_search >>

\* The active sequences are read (80-89): without rows the rebuild returns
\* False; with rows the FASTA files are written and makeblastdb is started
\* (91-114).
BuildQuery(p, rows) ==
    /\ bpc[p] = "query"
    /\ IF rows
       THEN /\ index_files' = "partial"
            /\ bpc' = [bpc EXCEPT ![p] = "makeblastdb"]
            /\ UNCHANGED exit_kind
       ELSE /\ bpc' = [bpc EXCEPT ![p] = "finally"]
            /\ exit_kind' = [exit_kind EXCEPT ![p] = "return"]
            /\ UNCHANGED index_files
    /\ UNCHANGED << lock_file, created, ever_built, last_search >>

\* makeblastdb ends (127-141, 113-124): with exit code 0 the index is
\* complete.
BuildMakeblastdb(p, ok) ==
    /\ bpc[p] = "makeblastdb"
    /\ index_files' = IF ok THEN "complete" ELSE index_files
    /\ ever_built' = (ever_built \/ ok)
    /\ bpc' = [bpc EXCEPT ![p] = "finally"]
    /\ exit_kind' = [exit_kind EXCEPT ![p] = "return"]
    /\ UNCHANGED << lock_file, created, last_search >>

\* The rebuild is left by an exception, or at one of its awaits by the
\* cancellation of the task (66-68).
BuildAbort(p, kind) ==
    /\ bpc[p] \in RebuildPoints
    /\ kind \in {"exception", "cancelled"}
    /\ kind = "cancelled" => bpc[p] \in {"query", "makeblastdb"}
    /\ bpc' = [bpc EXCEPT ![p] = "finally"]
    /\ exit_kind' = [exit_kind EXCEPT ![p] = kind]
    /\ UNCHANGED << lock_file, index_files, created, ever_built, last_search >>

\* Mutant of ReleaseLock: the lock is removed after a normal return only.
ReleaseLockOnReturnOnly(p) == IF exit_kind[p] = "return" THEN NoLock ELSE lock_file

\* lock_file.unlink(missing_ok=True) of the finally block (68-70).
ReleaseLock(p) == NoLock

\* The finally block (68-70).
BuildFinally(p) ==
    /\ bpc[p] = "finally"
    /\ lock_file' = ReleaseLock(p)
    /\ bpc' = [bpc EXCEPT ![p] = "done"]
    /\ UNCHANGED << index_files, created, exit_kind, ever_built, last_search >>

\* run_search tests for the .ndb file and runs the search program (156-163,
\* 197-203).  While makeblastdb writes the files, the .ndb file is there or
\* not.
Search(ndb_exists) ==
    /\ index_files = "absent" => ~ndb_exists
    /\ index_files = "complete" => ndb_exists
    /\ last_search' =
          [outcome |-> IF ~ndb_exists THEN "not_built"
                       ELSE IF index_files = "partial" THEN "partial" ELSE "complete",
           built_before |-> ever_built]
    /\ UNCHANGED << lock_file, index_files, bpc, created, exit_kind,
                    ever_built >>

BlastFrame == UNCHANGED << rvars, cvars, ivars, svars, qvars, tvars, dvars, hvars, pvars, xvars, wvars, avars, evars, kvars >>

BlastNext ==
    \/ LockAges /\ BlastFrame
    \/ \E p \in Builders : BuildStart(p) /\ BlastFrame
    \/ \E p \in Builders : BuildStat(p) /\ BlastFrame
    \/ \E p \in Builders : BuildUnlinkStale(p) /\ BlastFrame
    \/ \E p \in Builders : BuildCreateLock(p) /\ BlastFrame
    \/ \E p \in Builders : BuildRemoveOld(p) /\ BlastFrame
    \/ \E p \in Builders, rows \in BOOLEAN : BuildQuery(p, rows) /\ BlastFrame
    \/ \E p \in Builders, ok \in BOOLEAN : BuildMakeblastdb(p, ok) /\ BlastFrame
    \/ \E p \in Builders, kind \in {"exception", "cancelled"} : BuildAbort(p, kind) /\ BlastFrame
    \/ \E p \in Builders : BuildFinally(p) /\ BlastFrame
    \/ \E ndb_exists \in BOOLEAN : Search(ndb_exists) /\ BlastFrame

SpecBlast == BlastInit /\ [][BlastNext]_vars

----------------------------------------------------------------------------
\* The ingestion pipeline (src/src/hive/watcher/ingest.py).  Every call runs
\* in a database session of its own; a session is one transaction of a
\* PostgreSQL database at its default isolation level, READ COMMITTED: a
\* statement sees the rows committed before it started, its writes stay
\* invisible to the other sessions until COMMIT, and a statement that writes a
\* row another open transaction has written waits for that transaction to end.
\* The actions are the awaits of the two coroutines (the database round-trips).

\* hash_file: the SHA-256 digest of the bytes
hash_file(c) == CASE c = "c1" -> "h1" [] c = "c2" -> "h2" [] OTHER -> "h3"

\* the parser returns a ParseResult (otherwise it raises)
ParseOk(c) == c # "bad"

\* str(e) of the exception the parser raises
ErrMsg(c) == "parse error"

\* result.features and result.primers of the parsed file
Features(c) == IF c = "c1" THEN {"cds", "ori"} ELSE {}
Primers(c) == IF c = "c1" THEN {"fwd"} ELSE {}

EndedPoints == {"idle", "done", "raised"}

\* the session of call slot r is open
Open(r) == run[r].pc \notin EndedPoints

\* select(IndexedFile).where(file_path == p) ... scalar_one_or_none()
RowByPath(p) ==
    IF \E f \in files_tbl : f.file_path = p
    THEN CHOOSE f \in files_tbl : f.file_path = p
    ELSE NoRow

\* Mutant of ExistingFile: the lookup never finds the row.
ExistingFileNever(p) == NoRow

\* ingest_file's lookup of the file row
ExistingFile(p) == RowByPath(p)

\* remove_file's lookup of the file row
Indexed(p) == RowByPath(p)

\* Mutant of Unchanged: the hash is not compared.
UnchangedNever(row, h) == FALSE

\* the early return of ingest_file
Unchanged(row, h) == row # NoRow /\ row.file_hash = h

\* Mutant of SequencesOf: the DELETE matches no row.
SequencesOfNone(id) == {}

\* the rows delete(Sequence).where(Sequence.file_id == id) matches
SequencesOf(id) == { s.id : s \in { t \in seq_tbl : t.file_id = id } }

\* The unit of work writes only the attributes whose value changed.
Diff(old, new) == IF new = old THEN "keep" ELSE new

ApplyUpd(row, u) ==
    [row EXCEPT !.file_hash = IF u.file_hash = "keep" THEN @ ELSE u.file_hash,
                !.status = IF u.status = "keep" THEN @ ELSE u.status,
                !.error_msg = IF u.error_msg = "keep" THEN @ ELSE u.error_msg]

\* Mutant of ErrorAttrs: the failure is not recorded on an existing row.
ErrorAttrsNone(row, c) == NoUpd

\* the except branch on an existing row: status and error_msg
ErrorAttrs(row, c) ==
    [NoUpd EXCEPT !.status = Diff(row.status, "error"),
                  !.error_msg = Diff(row.error_msg, ErrMsg(c))]

\* the upsert branch on an existing row
ActiveAttrs(row, h) ==
    [file_hash |-> Diff(row.file_hash, h),
     status |-> Diff(row.status, "active"),
     error_msg |-> Diff(row.error_msg, "none")]

\* Mutant of DeletedAttrs: the status is left as it was.
DeletedAttrsNone(row) == NoUpd

\* remove_file: indexed.status = "deleted"
DeletedAttrs(row) == [NoUpd EXCEPT !.status = Diff(row.status, "deleted")]

\* primary keys: the smallest value no row in sight uses
UsedFileIds ==
    { f.id : f \in files_tbl } \cup UNION { { f.id : f \in run[r].new_file } : r \in Runs }
UsedSeqIds ==
    { s.id : s \in seq_tbl }
        \cup UNION { { s.id : s \in run[r].new_seq } \cup run[r].targets \cup run[r].del
                     : r \in Runs }
FreshId(used) == CHOOSE n \in 1 .. Cardinality(used) + 1 : n \notin used

\* another open transaction holds the lock of ...
FileRowLocked(r, id) ==
    \E r2 \in Runs \ {r} : Open(r2) /\ run[r2].upd # NoUpd /\ run[r2].existing.id = id
PathInsertPending(r, p) ==
    \E r2 \in Runs \ {r} : Open(r2) /\ \E f \in run[r2].new_file : f.file_path = p
SeqRowsLocked(r, ids) ==
    \E r2 \in Runs \ {r} : Open(r2) /\ run[r2].del \cap ids # {}

\* the call record once the coroutine has returned (or raised) and the
\* session is closed: what was not committed is rolled back; of the row the
\* call had loaded the record keeps the primary key
Finish(rec, ret, pcval) ==
    [rec EXCEPT !.pc = pcval, !.ret = ret, !.targets = {}, !.del = {},
                !.upd = NoUpd, !.new_file = {}, !.new_seq = {},
                !.existing = [NoRow EXCEPT !.id = rec.existing.id]]

Summary(rec, ret) ==
    [op |-> rec.op, path |-> rec.path, ret |-> ret, file_hash |-> rec.file_hash]

tables == << files_tbl, seq_tbl, feat_tbl, primer_tbl >>

\* the rows of the session of r become the committed ones
CommitTables(files, del, new_seq) ==
    /\ files_tbl' = files
    /\ seq_tbl' = { s \in seq_tbl : s.id \notin del } \cup new_seq
    /\ feat_tbl' = { x \in feat_tbl : x.seq_id \notin del }
          \cup UNION { { [seq_id |-> s.id, name |-> n] : n \in Features(s.src) }
                       : s \in new_seq }
    /\ primer_tbl' = { x \in primer_tbl : x.seq_id \notin del }
          \cup UNION { { [seq_id |-> s.id, name |-> n] : n \in Primers(s.src) }
                       : s \in new_seq }

\* A fresh index; the files that get rewritten hold any bytes.
IngestInit ==
    /\ RouterIdle
    /\ ConnIdle
    /\ BlastIdle
    /\ ScanIdle
    /\ QuarIdle
    /\ ToolIdle
    /\ RouteIdle
    /\ HistIdle
    /\ PipeIdle
    /\ SearchIdle
    /\ WatchIdle
    /\ AdminIdle
    /\ ProgressIdle
    /\ ChatIdle
    /\ fs \in { f \in [Paths -> Contents] : \A p \in Paths \ Rewritten : f[p] = "c1" }
    /\ files_tbl = {}
    /\ seq_tbl = {}
    /\ feat_tbl = {}
    /\ primer_tbl = {}
    /\ run = [r \in Runs |-> IdleRun]
    /\ last_end = NoCall
    /\ last_commit = 0

\* The file of path p is rewritten.
EditFile(p, c) ==
    /\ p \in Rewritten
    /\ c # fs[p]
    /\ fs' = [fs EXCEPT ![p] = c]
    /\ UNCHANGED << tables, run, last_end, last_commit >>

\* The call about to be made is an ingest_file call that directly follows an
\* ingest_file call which returned the file record for the same path and the
\* same bytes (kept in the call record to state properties of such calls).
Again(op, p) ==
    /\ op = "ingest"
    /\ last_end = [op |-> "ingest", path |-> p, ret |-> "indexed",
                   file_hash |-> hash_file(fs[p])]

\* ingest_file or remove_file is called with a fresh session; ingest_file
\* runs up to its first await (hash_file, stat).  The call record notes what
\* the index held for the path at the call (again, id0, changed), which the
\* properties of the call are stated with.
Call(r, op, p) ==
    /\ run[r].pc \in EndedPoints
    /\ run' = [run EXCEPT ![r] =
                 [IdleRun EXCEPT !.op = op, !.path = p,
                                 !.pc = IF op = "ingest" THEN "select" ELSE "rm_select",
                                 !.file_hash = IF op = "ingest" THEN hash_file(fs[p]) ELSE "none",
                                 !.again = Again(op, p),
                                 !.id0 = RowByPath(p).id,
                                 !.changed = RowByPath(p) # NoRow
                                             /\ RowByPath(p).file_hash # hash_file(fs[p])]]
    /\ UNCHANGED << fs, tables, last_end, last_commit >>

\* A call made while no other call is in progress (one caller, as the tests
\* and a single watcher task make them).
CallAlone(op, p) ==
    /\ \A r \in Runs : ~Open(r)
    /\ Call(1, op, p)

\* ingest_file from the SELECT to the next await: the unchanged return, the
\* parser and its except branch, the upsert of the file row in the session.
IngestSelect(r) ==
    /\ run[r].pc = "select"
    /\ LET existing_file == ExistingFile(run[r].path)
           c == fs[run[r].path]
           loaded == [run[r] EXCEPT !.existing = existing_file]
           unchanged == Unchanged(existing_file, run[r].file_hash)
       IN /\ run' = [run EXCEPT ![r] =
                  IF unchanged THEN Finish(loaded, "none", "done")
                  ELSE IF ~ParseOk(c) THEN [loaded EXCEPT !.content = c, !.pc = "commit_err"]
                  ELSE IF existing_file # NoRow
                       THEN [loaded EXCEPT !.content = c, !.pc = "delete"]
                       ELSE [loaded EXCEPT !.content = c, !.pc = "flush_file"]]
          /\ last_end' = IF unchanged THEN Summary(loaded, "none") ELSE last_end
    /\ UNCHANGED << fs, tables, last_commit >>

\* The except branch: session.commit() flushes the UPDATE or the INSERT of
\* the file row and commits; a second row for the path violates the UNIQUE
\* constraint and the IntegrityError leaves ingest_file.
CommitErr(r) ==
    /\ run[r].pc = "commit_err"
    /\ LET rec == run[r]
           ex == rec.existing
           dup == ex = NoRow /\ RowByPath(rec.path) # NoRow
           row == [id |-> FreshId(UsedFileIds), file_path |-> rec.path,
                   file_hash |-> rec.file_hash, status |-> "error",
                   error_msg |-> ErrMsg(rec.content)]
       IN /\ IF ex # NoRow THEN ~FileRowLocked(r, ex.id) ELSE ~PathInsertPending(r, rec.path)
          /\ files_tbl' =
                IF dup THEN files_tbl
                ELSE IF ex = NoRow THEN files_tbl \cup {row}
                ELSE { IF f.id = ex.id THEN ApplyUpd(f, ErrorAttrs(ex, rec.content)) ELSE f
                       : f \in files_tbl }
          /\ run' = [run EXCEPT ![r] =
                  IF dup THEN Finish(rec, "raised", "raised") ELSE Finish(rec, "none", "done")]
          /\ last_end' = Summary(rec, IF dup THEN "raised" ELSE "none")
          /\ last_commit' = IF dup THEN last_commit ELSE r
    /\ UNCHANGED << fs, seq_tbl, feat_tbl, primer_tbl >>

\* The DELETE of the file's sequences starts: it takes its snapshot.
DeleteBegin(r) ==
    /\ run[r].pc = "delete"
    /\ run' = [run EXCEPT ![r].targets = SequencesOf(run[r].existing.id),
                          ![r].pc = "delete_wait"]
    /\ UNCHANGED << fs, tables, last_end, last_commit >>

\* The DELETE ends, after the transactions that had deleted rows of its
\* snapshot have ended: it deletes the rows of the snapshot that still exist.
DeleteEnd(r) ==
    /\ run[r].pc = "delete_wait"
    /\ ~SeqRowsLocked(r, run[r].targets)
    /\ run' = [run EXCEPT ![r].del = run[r].targets \cap { s.id : s \in seq_tbl },
                          ![r].pc = IF run[r].op = "ingest" THEN "flush_seq" ELSE "rm_commit"]
    /\ UNCHANGED << fs, tables, last_end, last_commit >>

\* session.flush() of a new file row (line 112): the INSERT waits for an
\* uncommitted row of the same path and fails on a committed one.
FlushFile(r) ==
    /\ run[r].pc = "flush_file"
    /\ ~PathInsertPending(r, run[r].path)
    /\ LET rec == run[r]
           dup == RowByPath(rec.path) # NoRow
           row == [id |-> FreshId(UsedFileIds), file_path |-> rec.path,
                   file_hash |-> rec.file_hash, status |-> "active",
                   error_msg |-> "none"]
       IN /\ run' = [run EXCEPT ![r] =
                  IF dup THEN Finish(rec, "raised", "raised")
                  ELSE [rec EXCEPT !.new_file = {row}, !.pc = "flush_seq"]]
          /\ last_end' = IF dup THEN Summary(rec, "raised") ELSE last_end
    /\ UNCHANGED << fs, tables, last_commit >>

\* session.flush() of the new Sequence (line 125); for an existing file row
\* the same flush sends the UPDATE of the row.
FlushSeq(r) ==
    /\ run[r].pc = "flush_seq"
    /\ LET rec == run[r]
           ex == rec.existing
           indexed_id == IF ex # NoRow THEN ex.id
                         ELSE (CHOOSE f \in rec.new_file : TRUE).id
           seq == [id |-> FreshId(UsedSeqIds), file_id |-> indexed_id, src |-> rec.content]
       IN /\ ex # NoRow => ~FileRowLocked(r, ex.id)
          /\ run' = [run EXCEPT ![r] =
                  [rec EXCEPT !.upd = IF ex # NoRow THEN ActiveAttrs(ex, rec.file_hash) ELSE NoUpd,
                              !.new_seq = {seq}, !.pc = "commit"]]
    /\ UNCHANGED << fs, tables, last_end, last_commit >>

\* session.commit() of a successful ingest (line 151): the features and
\* primers are flushed and the transaction commits.
Commit(r) ==
    /\ run[r].pc = "commit"
    /\ LET rec == run[r]
       IN /\ CommitTables({ IF f.id = rec.existing.id THEN ApplyUpd(f, rec.upd) ELSE f
                             : f \in files_tbl } \cup rec.new_file,
                           rec.del, rec.new_seq)
          /\ run' = [run EXCEPT ![r] = Finish(rec, "indexed", "done")]
          /\ last_end' = Summary(rec, "indexed")
          /\ last_commit' = r
    /\ UNCHANGED fs

\* remove_file from the SELECT to the next await.
RemoveSelect(r) ==
    /\ run[r].pc = "rm_select"
    /\ LET indexed == Indexed(run[r].path)
           loaded == [run[r] EXCEPT !.existing = indexed]
       IN /\ run' = [run EXCEPT ![r] =
                  IF indexed = NoRow THEN Finish(loaded, "false", "done")
                  ELSE [loaded EXCEPT !.pc = "delete"]]
          /\ last_end' = IF indexed = NoRow THEN Summary(loaded, "false") ELSE last_end
    /\ UNCHANGED << fs, tables, last_commit >>

\* session.commit() of remove_file: the UPDATE of the status is flushed and
\* the transaction commits.
RemoveCommit(r) ==
    /\ run[r].pc = "rm_commit"
    /\ ~FileRowLocked(r, run[r].existing.id)
    /\ LET rec == run[r]
       IN /\ CommitTables({ IF f.id = rec.existing.id
                             THEN ApplyUpd(f, DeletedAttrs(rec.existing)) ELSE f
                             : f \in files_tbl },
                           rec.del, {})
          /\ run' = [run EXCEPT ![r] = Finish(rec, "true", "done")]
          /\ last_end' = Summary(rec, "true")
          /\ last_commit' = r
    /\ UNCHANGED fs

\* watcher_reindex (admin/routes.py): the hashes of the active rows are reset.
ReindexReset ==
    /\ \A r \in Runs : ~Open(r)
    /\ \E f \in files_tbl : f.status = "active" /\ f.file_hash # ""
    /\ files_tbl' = { IF f.status = "active" THEN [f EXCEPT !.file_hash = ""] ELSE f
                      : f \in files_tbl }
    /\ last_commit' = 0
    /\ last_end' = [NoCall EXCEPT !.op = "reindex"]
    /\ UNCHANGED << fs, seq_tbl, feat_tbl, primer_tbl, run >>

IngestFrame == UNCHANGED << rvars, cvars, bvars, svars, qvars, tvars, dvars, hvars, pvars, xvars, wvars, avars, evars, kvars >>

IngestNext ==
    \/ \E p \in Paths, c \in Contents : EditFile(p, c) /\ IngestFrame
    \/ \E op \in {"ingest", "remove"}, p \in Paths : CallAlone(op, p) /\ IngestFrame
    \/ \E r \in Runs : IngestSelect(r) /\ IngestFrame
    \/ \E r \in Runs : CommitErr(r) /\ IngestFrame
    \/ \E r \in Runs : DeleteBegin(r) /\ IngestFrame
    \/ \E r \in Runs : DeleteEnd(r) /\ IngestFrame
    \/ \E r \in Runs : FlushFile(r) /\ IngestFrame
    \/ \E r \in Runs : FlushSeq(r) /\ IngestFrame
    \/ \E r \in Runs : Commit(r) /\ IngestFrame
    \/ \E r \in Runs : RemoveSelect(r) /\ IngestFrame
    \/ \E r \in Runs : RemoveCommit(r) /\ IngestFrame
    \/ ReindexReset /\ IngestFrame

SpecIngest == IngestInit /\ [][IngestNext]_vars

\* Calls that overlap: the watcher task, the scan of a rescan or reindex
\* request and a second server process each call ingest_file on their own.
\* The index is fresh, or holds a.gb as an earlier ingest_file of the bytes
\* c1 left it; every call slot makes one call.
IngestConcInit ==
    /\ RouterIdle
    /\ ConnIdle
    /\ BlastIdle
    /\ ScanIdle
    /\ QuarIdle
    /\ ToolIdle
    /\ RouteIdle
    /\ HistIdle
    /\ PipeIdle
    /\ SearchIdle
    /\ WatchIdle
    /\ AdminIdle
    /\ ProgressIdle
    /\ ChatIdle
    /\ fs \in { f \in [Paths -> Contents] : \A p \in Paths \ Rewritten : f[p] = "c1" }
    /\ \E had \in BOOLEAN :
          /\ files_tbl = IF had THEN { [id |-> 1, file_path |-> "a.gb", file_hash |-> "h1",
                                       status |-> "active", error_msg |-> "none"] }
                         ELSE {}
          /\ seq_tbl = IF had THEN { [id |-> 1, file_id |-> 1, src |-> "c1"] } ELSE {}
          /\ feat_tbl = IF had THEN { [seq_id |-> 1, name |-> n] : n \in Features("c1") } ELSE {}
          /\ primer_tbl = IF had THEN { [seq_id |-> 1, name |-> n] : n \in Primers("c1") } ELSE {}
    /\ run = [r \in Runs |-> IdleRun]
    /\ last_end = NoCall
    /\ last_commit = 0

\* A call made whatever the other slots are doing.
CallOnce(r, op, p) ==
    /\ run[r].pc = "idle"
    /\ Call(r, op, p)

IngestConcNext ==
    \/ \E p \in Paths, c \in Contents : EditFile(p, c) /\ IngestFrame
    \/ \E r \in Runs, op \in {"ingest", "remove"}, p \in Paths : CallOnce(r, op, p) /\ IngestFrame
    \/ \E r \in Runs : IngestSelect(r) /\ IngestFrame
    \/ \E r \in Runs : CommitErr(r) /\ IngestFrame
    \/ \E r \in Runs : DeleteBegin(r) /\ IngestFrame
    \/ \E r \in Runs : DeleteEnd(r) /\ IngestFrame
    \/ \E r \in Runs : FlushFile(r) /\ IngestFrame
    \/ \E r \in Runs : FlushSeq(r) /\ IngestFrame
    \/ \E r \in Runs : Commit(r) /\ IngestFrame
    \/ \E r \in Runs : RemoveSelect(r) /\ IngestFrame
    \/ \E r \in Runs : RemoveCommit(r) /\ IngestFrame
    \/ ReindexReset /\ IngestFrame

SpecIngestConc == IngestConcInit /\ [][IngestConcNext]_vars

----------------------------------------------------------------------------
\* The scan (scan_and_ingest, src/src/hive/watcher/watcher.py): one session
\* per batch of batch_size files, ingest_file called with commit=False for
\* each file, a commit at the end of the batch.  The actions are the awaits
\* of the coroutine.

ScanPoints == {"ingest", "commit", "sleep"}

\* ingest_file(session, path, match, commit=False) on a usable session: the
\* rows of the file (the file row in error when the parser raises) are
\* written in the session and left for the caller to commit; the result is
\* the file record, or nil after a parser failure.
IngestNoCommit(parses) ==
    [result |-> IF parses THEN "indexed" ELSE "none", written |-> TRUE]

\* the test that ends a batch (line 70)
BatchEnds(count, i) == count >= batch_size \/ i = Len(scan_files)

\* the scan has found its files and opened the session of the first batch
ScanInit ==
    /\ RouterIdle
    /\ ConnIdle
    /\ BlastIdle
    /\ IngestIdle
    /\ QuarIdle
    /\ ToolIdle
    /\ RouteIdle
    /\ HistIdle
    /\ PipeIdle
    /\ SearchIdle
    /\ WatchIdle
    /\ AdminIdle
    /\ ProgressIdle
    /\ ChatIdle
    /\ scan_files \in { f \in SeqsUpTo(BOOLEAN, NumFiles) : Len(f) >= 1 }
    /\ batch_size \in 1 .. MaxBatch
    /\ spc = "ingest"
    /\ scan_i = 1
    /\ batch_count = 0
    /\ session = "open"
    /\ pending = {}
    /\ committed = {}
    /\ n_indexed = 0
    /\ n_errors = 0
    /\ faults = {}
    /\ at_cancel = {}

\* the rest of the loop body after the try statement around ingest_file
AfterIngest ==
    /\ batch_count' = batch_count + 1
    /\ IF BatchEnds(batch_count + 1, scan_i)
       THEN spc' = "commit" /\ scan_i' = scan_i
       ELSE spc' = "ingest" /\ scan_i' = scan_i + 1

\* ingest_file returns (with the file record, or nil after a parser failure).
IngestReturns ==
    /\ spc = "ingest"
    /\ session = "open"
    /\ LET out == IngestNoCommit(scan_files[scan_i])
       IN /\ pending' = IF out.written THEN pending \cup {scan_i} ELSE pending
          /\ n_indexed' = IF out.result # "none" THEN n_indexed + 1 ELSE n_indexed
    /\ AfterIngest
    /\ UNCHANGED << scan_files, batch_size, session, committed, n_errors, faults, at_cancel >>

\* A statement of ingest_file fails in the database.  A failed flush rolls
\* the session's transaction back and leaves the session unusable until
\* rollback() is called; after a failed execute the database has aborted the
\* transaction.  Either way what the batch had written is gone; the
\* exception is caught at line 64.
IngestFails(how) ==
    /\ spc = "ingest"
    /\ session = "open"
    /\ Cardinality(faults) < MaxFaults
    /\ faults' = faults \cup {scan_i}
    /\ session' = how
    /\ pending' = {}
    /\ n_errors' = n_errors + 1
    /\ AfterIngest
    /\ UNCHANGED << scan_files, batch_size, committed, n_indexed, at_cancel >>

\* ingest_file is called on the session that has failed: its first
\* statement raises, and the exception is caught at line 64.
IngestOnFailedSession ==
    /\ spc = "ingest"
    /\ session \in {"failed_flush", "failed_execute"}
    /\ n_errors' = n_errors + 1
    /\ AfterIngest
    /\ UNCHANGED << scan_files, batch_size, session, pending, committed, n_indexed,
                    faults, at_cancel >>

\* session.commit() on a session whose flush has failed raises
\* PendingRollbackError, which leaves scan_and_ingest through the finally.
CommitRaises == session = "failed_flush"

\* session.commit() and session.__aexit__() at the end of a batch (lines 71-74).
BatchCommit ==
    /\ spc = "commit"
    /\ IF CommitRaises
       THEN spc' = "failed" /\ committed' = committed
       ELSE /\ spc' = "sleep"
            /\ committed' = IF session = "open" THEN committed \cup pending ELSE committed
    /\ pending' = {}
    /\ session' = "none"
    /\ batch_count' = IF CommitRaises THEN batch_count ELSE 0
    /\ UNCHANGED << scan_files, batch_size, scan_i, n_indexed, n_errors, faults, at_cancel >>

\* asyncio.sleep(0) returns: the next batch starts with a new session, or the
\* loop is over.
NextBatch ==
    /\ spc = "sleep"
    /\ IF scan_i = Len(scan_files)
       THEN spc' = "done" /\ scan_i' = scan_i /\ session' = "none"
       ELSE spc' = "ingest" /\ scan_i' = scan_i + 1 /\ session' = "open"
    /\ UNCHANGED << scan_files, batch_size, batch_count, pending, committed, n_indexed,
                    n_errors, faults, at_cancel >>

\* What is committed once CancelledError has left the loop: the except clause
\* at line 64 does not catch it and the finally block closes the session,
\* which rolls back (done: a COMMIT already sent has taken effect).
OnCancel(done) ==
    IF done /\ session = "open" THEN committed \cup pending ELSE committed

\* The task is cancelled (lifespan shutdown: task.cancel()) while it is
\* suspended in ingest_file, in commit() or in sleep(0).
ScanCancelled(done) ==
    /\ spc \in ScanPoints
    /\ done => spc = "commit"
    /\ at_cancel' = IF spc = "ingest" THEN { i \in pending : scan_files[i] } ELSE {}
    /\ committed' = OnCancel(done)
    /\ pending' = {}
    /\ session' = "none"
    /\ spc' = "cancelled"
    /\ UNCHANGED << scan_files, batch_size, scan_i, batch_count, n_indexed, n_errors, faults >>

ScanFrame == UNCHANGED << rvars, cvars, bvars, ivars, qvars, tvars, dvars, hvars, pvars, xvars, wvars, avars, evars, kvars >>

ScanNext ==
    \/ IngestReturns /\ ScanFrame
    \/ \E how \in {"failed_flush", "failed_execute"} : IngestFails(how) /\ ScanFrame
    \/ IngestOnFailedSession /\ ScanFrame
    \/ BatchCommit /\ ScanFrame
    \/ NextBatch /\ ScanFrame
    \/ \E done \in BOOLEAN : ScanCancelled(done) /\ ScanFrame

SpecScan == ScanInit /\ [][ScanNext]_vars

----------------------------------------------------------------------------
\* The approval gate of external tools: sync_quarantine
\* (src/src/hive/tools/quarantine.py) and the operator's commands
\* "hive tool approve" and "hive tool reject" (src/src/hive/admin/cli.py).

\* py_files: the .py files of the directory whose name does not start with "_"
PyFiles == { f \in ToolFiles : tool_file[f] # "absent" /\ f # "_util.py" }

\* extract_tool_name(source): the name attribute found in the file's source
ToolName(h) == IF h = "H1" THEN "tool_one" ELSE "tool_two"

\* Mutant of SameHash: the hashes are not compared.
SameHashAlways(record, file_hash) == TRUE

\* the test of line 94
SameHash(record, file_hash) == record.file_hash = file_hash

\* Mutant of Requarantined: the earlier review stays on the row.
RequarantinedKeepsReview(record, file_hash) ==
    [record EXCEPT !.file_hash = file_hash, !.tool_name = ToolName(file_hash),
                   !.status = "quarantined"]

\* the row of an approved file whose content has changed (lines 98-101)
Requarantined(record, file_hash) ==
    [file_hash |-> file_hash, tool_name |-> ToolName(file_hash),
     status |-> "quarantined", reviewed_at |-> "null"]

\* Mutant of SyncRecord: the row of a file that is not approved follows the
\* file's bytes.
SyncRecordRefreshes(f) ==
    [file_hash |-> tool_file[f], tool_name |-> ToolName(tool_file[f]),
     status |-> "quarantined", reviewed_at |-> "null"]

\* the row sync_quarantine leaves for file name f
SyncRecord(f) ==
    LET record == approvals[f]
        file_hash == tool_file[f]
    IN IF record = NoApproval
       THEN [file_hash |-> file_hash, tool_name |-> ToolName(file_hash),
             status |-> "quarantined", reviewed_at |-> "null"]
       ELSE IF record.status = "approved" /\ ~SameHash(record, file_hash)
            THEN Requarantined(record, file_hash)
            ELSE record

\* the tools directory holds any files; no row yet
QuarInit ==
    /\ RouterIdle
    /\ ConnIdle
    /\ BlastIdle
    /\ IngestIdle
    /\ ScanIdle
    /\ ToolIdle
    /\ RouteIdle
    /\ HistIdle
    /\ PipeIdle
    /\ SearchIdle
    /\ WatchIdle
    /\ AdminIdle
    /\ ProgressIdle
    /\ ChatIdle
    /\ tool_file \in [ToolFiles -> Hashes \cup {"absent"}]
    /\ approvals = [f \in ToolFiles |-> NoApproval]
    /\ approved_set = {}
    /\ just_synced = FALSE
    /\ approved_hash = [f \in ToolFiles |-> "none"]

\* A tool file is written, rewritten or deleted.
WriteTool(f, h) ==
    /\ h # tool_file[f]
    /\ tool_file' = [tool_file EXCEPT ![f] = h]
    /\ just_synced' = FALSE
    /\ UNCHANGED << approvals, approved_set, approved_hash >>

\* sync_quarantine(tools_dir), with the database available.
SyncQuarantine ==
    /\ approvals' = [f \in ToolFiles |-> IF f \in PyFiles THEN SyncRecord(f) ELSE approvals[f]]
    /\ approved_set' = { f \in PyFiles : /\ approvals[f].status = "approved"
                                         /\ SameHash(approvals[f], tool_file[f]) }
    /\ just_synced' = TRUE
    /\ UNCHANGED << tool_file, approved_hash >>

\* hive tool approve <filename>
ToolApprove(f) ==
    /\ approvals[f] # NoApproval
    /\ approvals[f].status # "approved"
    /\ approvals' = [approvals EXCEPT ![f].status = "approved", ![f].reviewed_at = "set"]
    /\ approved_hash' = [approved_hash EXCEPT ![f] = approvals[f].file_hash]
    /\ just_synced' = FALSE
    /\ UNCHANGED << tool_file, approved_set >>

\* hive tool reject <filename>
ToolReject(f) ==
    /\ approvals[f] # NoApproval
    /\ approvals' = [approvals EXCEPT ![f].status = "rejected", ![f].reviewed_at = "set"]
    /\ just_synced' = FALSE
    /\ UNCHANGED << tool_file, approved_set, approved_hash >>

QuarFrame == UNCHANGED << rvars, cvars, bvars, ivars, svars, tvars, dvars, hvars, pvars, xvars, wvars, avars, evars, kvars >>

QuarNext ==
    \/ \E f \in ToolFiles, h \in Hashes \cup {"absent"} : WriteTool(f, h) /\ QuarFrame
    \/ SyncQuarantine /\ QuarFrame
    \/ \E f \in ToolFiles : ToolApprove(f) /\ QuarFrame
    \/ \E f \in ToolFiles : ToolReject(f) /\ QuarFrame

SpecQuarantine == QuarInit /\ [][QuarNext]_vars

----------------------------------------------------------------------------
\* The wrapper every tool class gets around its own execute:
\* Tool.__init_subclass__ (src/src/hive/tools/base.py).

\* the names of the registered tool classes
ToolNames == {"search", "blast"}

\* the keyword arguments a caller may pass; the router passes mode, the
\* conductor also user
KwNames == {"mode", "user", "chat_id"}

\* the classes derived from Exception a tool body may raise; TypeError is also
\* what a body raises that lacks a required keyword argument
ExceptionClasses == {"ValueError", "KeyError", "TypeError"}

\* the classes derived from BaseException only: the cancellation of the task
\* awaiting the body, sys.exit(), an interrupt
BaseOnlyClasses == {"CancelledError", "SystemExit", "KeyboardInterrupt"}

\* what the body of a tool returns
BodyResults == { [rows |-> 1], [rows |-> 0], [error |-> "not found"] }

\* the mapping of line 56
ErrorResult(name) == [error |-> << "Tool '", name, "' failed. Check server logs." >>]

\* Mutant of Caught: execute is not wrapped.
CaughtNever(e) == FALSE

\* "except Exception" (line 54)
Caught(e) == e \in ExceptionClasses

\* sig.parameters minus self and params (lines 46-47), and filtered (line 52)
Filtered(kw) == kw \cap accepted

\* a class that defines execute, with any keyword parameters
ToolInit ==
    /\ RouterIdle
    /\ ConnIdle
    /\ BlastIdle
    /\ IngestIdle
    /\ ScanIdle
    /\ QuarIdle
    /\ RouteIdle
    /\ HistIdle
    /\ PipeIdle
    /\ SearchIdle
    /\ WatchIdle
    /\ AdminIdle
    /\ ProgressIdle
    /\ ChatIdle
    /\ tool_name \in ToolNames
    /\ accepted \in SUBSET KwNames
    /\ call_kw = {}
    /\ body_kw = {}
    /\ tpc = "idle"
    /\ body_end = "none"
    /\ outcome = NoOutcome

\* await tool.execute(params, **kw): the wrapper enters the body (51-53)
ExecuteCall(kw) ==
    /\ tpc \in {"idle", "returned"}
    /\ call_kw' = kw
    /\ body_kw' = Filtered(kw)
    /\ tpc' = "body"
    /\ body_end' = "none"
    /\ outcome' = NoOutcome
    /\ UNCHANGED << tool_name, accepted >>

\* the body returns a mapping, which the wrapper returns (53)
BodyReturns(res) ==
    /\ tpc = "body"
    /\ tpc' = "returned"
    /\ body_end' = "return"
    /\ outcome' = res
    /\ UNCHANGED << tool_name, accepted, call_kw, body_kw >>

\* the body raises e: logged and converted, or passed on (54-56)
BodyRaises(e) ==
    /\ tpc = "body"
    /\ body_end' = e
    /\ IF Caught(e)
       THEN /\ tpc' = "returned"
            /\ outcome' = ErrorResult(tool_name)
       ELSE /\ tpc' = "raised"
            /\ outcome' = [raised |-> e]
    /\ UNCHANGED << tool_name, accepted, call_kw, body_kw >>

ToolFrame == UNCHANGED << rvars, cvars, bvars, ivars, svars, qvars, dvars, hvars, pvars, xvars, wvars, avars, evars, kvars >>

ToolNext ==
    \/ \E kw \in SUBSET KwNames : ExecuteCall(kw) /\ ToolFrame
    \/ \E res \in BodyResults : BodyReturns(res) /\ ToolFrame
    \/ \E e \in ExceptionClasses \cup BaseOnlyClasses : BodyRaises(e) /\ ToolFrame

SpecTool == ToolInit /\ [][ToolNext]_vars

----------------------------------------------------------------------------
\* Claims about the agentic loop (checked under SpecRouter).

\* C1: a run of the agentic loop makes at most max_turns + 1 calls to the
\* LLM client's chat operation, whatever the replies are.
C1_LLMCallsBounded == llm_calls <= max_turns + 1

\* C1 witness: a run with max_turns >= 2 has returned after using every turn.
C1_Witness == rpc = "done" /\ max_turns >= 2 /\ llm_calls = max_turns

\* C2: an LLM call made while the most recently executed tool is a terminal
\* tool carries tool_choice="none" and only the dummy schema.
C2_TerminalThenForcedText ==
    (rpc = "await" /\ chain # << >> /\ chain[Len(chain)] \in TerminalTools)
        => (turn_choice = "none" /\ turn_tools = NOOP_TOOL)

\* C2 witness: a call is in flight right after a terminal tool was executed.
C2_Witness ==
    /\ rpc = "await"
    /\ chain # << >>
    /\ chain[Len(chain)] \in TerminalTools
    /\ chain_turn[Len(chain)] = turn - 1

\* C3 as stated: once a terminal tool has been executed, no further tool is
\* executed for the request, not even one listed after it in the same turn.
C3_NothingAfterTerminal ==
    \A i, j \in 1 .. Len(chain) : (i < j) => chain[i] \notin TerminalTools

\* C3 amended: once a terminal tool has been executed as the last executed
\* tool of its LLM turn, no further tool is executed for the request (tool
\* calls listed after a terminal tool in the same turn are still executed,
\* and the last of them decides the narrowing).
C3_TerminalLastOfTurnEndsChain ==
    \A i \in 1 .. Len(chain) - 1 :
        chain[i] \in TerminalTools => chain_turn[i + 1] = chain_turn[i]

\* C3 witness: a terminal tool was the last tool executed in its turn, and a
\* later LLM turn of the request has been answered.
C3_Witness ==
    /\ rpc = "done"
    /\ chain # << >>
    /\ chain[Len(chain)] \in TerminalTools
    /\ llm_calls > chain_turn[Len(chain)] + 1

\* The positions of the assistant messages of the stack.
AssistantPositions == { p \in 1 .. Len(messages) : messages[p].role = "assistant" }

\* How many tool calls of the assistant message at p have been processed.
Processed(p) ==
    IF rpc = "tools" /\ \A q \in AssistantPositions : q <= p
    THEN tc_idx - 1
    ELSE Len(messages[p].calls)

\* The steps of chain executed in turn t.
ChainOfTurn(t) ==
    LET F[i \in 0 .. Len(chain)] ==
            IF i = 0 THEN << >>
            ELSE IF chain_turn[i] = t THEN Append(F[i - 1], chain[i]) ELSE F[i - 1]
    IN  F[Len(chain)]

\* The known tools among the first n calls of cs, in order.
KnownPrefix(cs, n) == SelectSeq(SubSeq(cs, 1, n), LAMBDA c : c \in registry)

\* C4: the tool calls c1..cn of a turn are executed in that order, exactly
\* one tool message per call (an error message for an unknown tool) follows
\* the assistant message in that order, and all of them are on the stack
\* before the next LLM call is made.
C4_ToolMessagesInOrder ==
    \A p \in AssistantPositions :
        LET cs == messages[p].calls
            t  == messages[p].turn
            k  == Processed(p)
        IN  /\ rpc # "tools" => k = Len(cs)
            /\ Len(messages) >= p + k
            /\ \A i \in 1 .. k :
                  /\ messages[p + i].role = "tool"
                  /\ messages[p + i].tool_call_id = CallId(t, i)
                  /\ messages[p + i].tool = cs[i]
                  /\ messages[p + i].content =
                        (IF cs[i] \in registry THEN "summary" ELSE "error")
            /\ (Len(messages) > p + k) => messages[p + k + 1].role = "assistant"
            /\ ChainOfTurn(t) = KnownPrefix(cs, k)

\* C4 witness: the next LLM call is in flight after a turn that called an
\* unknown tool and then a known one.
C4_Witness ==
    /\ rpc = "await"
    /\ \E p \in AssistantPositions :
          /\ Len(messages[p].calls) = 2
          /\ messages[p].calls[1] \notin registry
          /\ messages[p].calls[2] \in registry

----------------------------------------------------------------------------
\* Claims about the conductor (checked under SpecConn).

\* The tasks that have not finished.
Unfinished == { t \in Tasks : task_pc[t] # "done" }

\* C5: for a connection, at most one message-processing task is unfinished
\* at any time.
C5_AtMostOneUnfinishedTask == Cardinality(Unfinished) <= 1

\* The messages of type "message" sent so far.
Replies == SelectSeq(sent, LAMBDA m : m.type = "message")

\* C6: the processing of a later content message starts only after the
\* processing of every earlier one has finished, and the replies are sent in
\* the order of the requests.
C6_ProcessedInOrder ==
    /\ \A t1, t2 \in Tasks :
          (t1 < t2 /\ task_pc[t2] # "created") => task_pc[t1] = "done"
    /\ \A i, j \in 1 .. Len(Replies) :
          (i < j) => Replies[i].req <= Replies[j].req

\* The messages of type "message" sent for request t.
RepliesOf(t) == SelectSeq(sent, LAMBDA m : m.type = "message" /\ m.req = t)

\* C7: a request whose task received a cancel while suspended at an await of
\* its processing gets exactly one message of type "message": "Cancelled.",
\* without a widget; no message with the request's results is sent.
C7_CancelledOnce ==
    \A t \in Tasks :
        ( /\ task_pc[t] = "done"
          /\ Len(cancel_at[t]) = 1
          /\ cancel_at[t][1] \in SuspensionPoints )
            => RepliesOf(t) = << Msg("message", t, "Cancelled.", FALSE) >>

----------------------------------------------------------------------------
\* Claims about the BLAST index (checked under SpecBlast).

\* The callers inside _do_build_index.
Rebuilding == { p \in Builders : bpc[p] \in RebuildPoints }

\* C8: no two executions of the rebuild (_do_build_index) overlap in time.
C8_NoOverlappingRebuilds == Cardinality(Rebuilding) <= 1

\* C9: once an index has been built, a search finds a complete index: it is
\* never answered "index not built yet" and never runs against partially
\* written files.
C9_SearchFindsCompleteIndex ==
    last_search.built_before => last_search.outcome \in {"none", "complete"}

\* C10: when a build_index call that created .build.lock has finished, by
\* return, exception or cancellation, the lock file it created is gone.
C10_LockReleased ==
    \A p \in Builders :
        (bpc[p] = "done" /\ created[p]) => lock_file.owner # p

\* C10 witness: a call that created the lock was cancelled during the
\* rebuild and has finished.
C10_Witness ==
    \E p \in Builders :
        bpc[p] = "done" /\ created[p] /\ exit_kind[p] = "cancelled"

----------------------------------------------------------------------------
\* Claims about the ingestion pipeline (checked under SpecIngest, the calls
\* made one after the other, or SpecIngestConc, the calls overlapping).

\* the committed file rows of a path, and the committed sequences of a file row
FileRows(p) == { f \in files_tbl : f.file_path = p }
SeqRows(id) == { s \in seq_tbl : s.file_id = id }

\* C11: when two ingest_file runs on the same path, each in its own session
\* and interleaved at the database round-trips, have both returned the file
\* record, the committed state holds exactly one file row for the path with
\* exactly one sequence, and the sequence and the stored hash are those of
\* the run that committed last.
C11_ConvergeToLastCommit ==
    \A r1, r2 \in Runs :
        ( /\ r1 # r2
          /\ run[r1].op = "ingest" /\ run[r2].op = "ingest"
          /\ run[r1].path = run[r2].path
          /\ run[r1].ret = "indexed" /\ run[r2].ret = "indexed"
          /\ last_commit = r2 )
        => /\ Cardinality(FileRows(run[r2].path)) = 1
           /\ \A f \in FileRows(run[r2].path) :
                 /\ f.file_hash = run[r2].file_hash
                 /\ Cardinality(SeqRows(f.id)) = 1
                 /\ \A s \in SeqRows(f.id) : s.src = run[r2].content

\* the call of slot r has ended and no call or reindex has ended since
JustEnded(r) ==
    /\ run[r].pc \in {"done", "raised"}
    /\ last_end = Summary(run[r], run[r].ret)

\* C12: in every committed state reached by ingest_file calls (successful or
\* with a parser failure), remove_file calls and reindex hash resets, every
\* sequence row references exactly one existing file row, whose status is
\* active or error.
C12_SequenceHasLiveFile ==
    \A s \in seq_tbl :
        /\ Cardinality({ f \in files_tbl : f.id = s.file_id }) = 1
        /\ \A f \in files_tbl : f.id = s.file_id => f.status \in {"active", "error"}

\* a sequence kept under a file row in error, next to a removed file and a
\* row whose hash a reindex has reset
C12_Witness ==
    /\ \E s \in seq_tbl : \E f \in files_tbl : f.id = s.file_id /\ f.status = "error"
    /\ \E f \in files_tbl : f.status = "deleted"
    /\ \E s \in seq_tbl : \E f \in files_tbl : f.id = s.file_id /\ f.file_hash = ""

\* C13: in every committed state reached by ingest_file and remove_file calls
\* there is at most one file row per path, and an ingest_file call on a path
\* whose row holds another hash leaves that row (same id) with the new hash
\* and adds no row.
C13_OneRowPerPath ==
    /\ \A p \in Paths : Cardinality(FileRows(p)) <= 1
    /\ \A r \in Runs :
          ( /\ JustEnded(r)
            /\ run[r].op = "ingest"
            /\ run[r].changed
            /\ ParseOk(run[r].content) )
          => /\ Cardinality(FileRows(run[r].path)) = 1
             /\ \A f \in FileRows(run[r].path) :
                   f.id = run[r].id0 /\ f.file_hash = run[r].file_hash

\* a changed file has been ingested again while the other path has its row
C13_Witness ==
    /\ \E r \in Runs :
          /\ JustEnded(r) /\ run[r].op = "ingest" /\ run[r].changed
          /\ run[r].ret = "indexed"
    /\ Cardinality(files_tbl) = 2

\* C14 (state part): an ingest_file call on a parseable file whose path has
\* no row, or a row with another hash, returns the file record; the call that
\* follows it on the same path with the same bytes returns nil and finds the
\* row as the first call left it.
C14_SecondReturnsNil ==
    \A r \in Runs :
        ( run[r].pc \in {"done", "raised"} /\ run[r].op = "ingest" )
        => /\ ( (run[r].id0 = 0 \/ run[r].changed) /\ ParseOk(run[r].content)
                /\ run[r].content # "none" )
                => run[r].ret = "indexed"
           /\ run[r].again => run[r].ret = "none"

\* C14 (step part): no step of that second call changes a row of the index.
C14_SecondChangesNothing ==
    \A r \in Runs : (run[r].again /\ Open(r)) => tables' = tables

\* C14: ingesting a parseable file and then the same path again with
\* unchanged bytes: the first call returns the file record, the second
\* returns nil and changes no row.
C14_UnchangedIsNoOp == [] C14_SecondReturnsNil /\ [][C14_SecondChangesNothing]_vars

C14_Witness ==
    \E r \in Runs : run[r].pc = "done" /\ run[r].again /\ run[r].ret = "none"

\* the feature and primer rows of the sequences of file row id, and those
\* whose sequence is gone
DependentsOf(id) ==
    { x \in feat_tbl \cup primer_tbl :
        \A s \in seq_tbl : s.id = x.seq_id => s.file_id = id }

\* C15 (state part): after remove_file has returned for a path that had a
\* file row, it has returned true, no sequence, feature or primer row is left
\* for that file and the row's status is deleted; for a path without a row
\* it has returned false.
C15_RemovedFileHasNoRows ==
    \A r \in Runs :
        ( JustEnded(r) /\ run[r].op = "remove" )
        => IF run[r].id0 # 0
           THEN /\ run[r].ret = "true"
                /\ SeqRows(run[r].id0) = {}
                /\ DependentsOf(run[r].id0) = {}
                /\ \A f \in files_tbl : f.id = run[r].id0 => f.status = "deleted"
           ELSE run[r].ret = "false"

\* C15 (step part): remove_file on a path without a file row changes no row.
C15_AbsentChangesNothing ==
    \A r \in Runs :
        (run[r].op = "remove" /\ Open(r) /\ run[r].id0 = 0) => tables' = tables

\* C15: after remove_file returns for a path that has a file row, no
\* sequence, feature or primer row remains for that file and the file row's
\* status is deleted; for a path without a file row it returns false and
\* changes nothing.
C15_RemoveFile == [] C15_RemovedFileHasNoRows /\ [][C15_AbsentChangesNothing]_vars

\* a file with features and primers has been removed
C15_Witness ==
    \E r \in Runs :
        /\ JustEnded(r) /\ run[r].op = "remove" /\ run[r].ret = "true"
        /\ \E f \in files_tbl : f.id = run[r].id0 /\ f.file_hash = "h1"

\* C16: when the parser raises for a file that has no row or whose hash
\* differs from the stored one, ingest_file raises nothing, returns nil, and
\* the committed file row of the path has status error and the exception
\* message as error_msg.
C16_ParserFailureRecorded ==
    \A r \in Runs :
        ( JustEnded(r) /\ run[r].op = "ingest" /\ run[r].content # "none"
          /\ ~ParseOk(run[r].content) )
        => /\ run[r].pc = "done"
           /\ run[r].ret = "none"
           /\ Cardinality(FileRows(run[r].path)) = 1
           /\ \A f \in FileRows(run[r].path) :
                 f.status = "error" /\ f.error_msg = ErrMsg(run[r].content)

\* the parser has failed on a file that was indexed before with other bytes
C16_Witness ==
    \E r \in Runs :
        /\ JustEnded(r) /\ run[r].op = "ingest" /\ run[r].content = "bad"
        /\ run[r].changed

----------------------------------------------------------------------------
\* Claims about the scan (checked under SpecScan).

\* C17: when the scan has ended without being cancelled, it has run to
\* completion, and every file it found whose parser succeeds and whose own
\* ingest hit no database error has its rows committed, whatever error
\* another file has failed with.
C17_OtherFilesCommitted ==
    spc \in {"done", "failed"}
    => /\ spc = "done"
       /\ \A i \in 1 .. Len(scan_files) :
             (scan_files[i] /\ i \notin faults) => i \in committed

\* C18: when the scan task has ended by a cancellation, the files that the
\* unfinished batch had already ingested have their rows committed.
C18_BatchCommittedOnCancel == spc = "cancelled" => at_cancel \subseteq committed

----------------------------------------------------------------------------
\* Claims about the approval gate (checked under SpecQuarantine).

\* C19: whatever file edits, approvals, rejections and syncs came before, a
\* file name is in the set sync_quarantine returns only if its approval row
\* has status approved and the file's SHA-256 is the hash the row held when
\* it was last approved.
C19_ApprovedMeansReviewedBytes ==
    just_synced =>
        \A f \in approved_set :
            approvals[f].status = "approved" /\ tool_file[f] = approved_hash[f]

\* a sync has returned one file and left out one that had been approved once
C19_Witness ==
    /\ just_synced
    /\ approved_set # {}
    /\ \E f \in ToolFiles \ approved_set : approved_hash[f] # "none"

\* the step is a sync_quarantine on a file approved with one hash whose
\* bytes now have another
C20_SyncOfChanged(f) ==
    /\ just_synced'
    /\ f \in PyFiles
    /\ approvals[f].status = "approved"
    /\ approvals[f].file_hash # tool_file[f]

\* C20: when a tool file has been approved with recorded hash H1 and its
\* bytes have changed to another hash H2, the next sync_quarantine leaves its
\* approval row with status quarantined, file_hash H2 and reviewed_at null,
\* and does not return the file in the approved set.
C20_ChangedIsRequarantined ==
    [][ \A f \in ToolFiles :
          C20_SyncOfChanged(f)
          => /\ approvals'[f].status = "quarantined"
             /\ approvals'[f].file_hash = tool_file[f]
             /\ approvals'[f].reviewed_at = "null"
             /\ f \notin approved_set' ]_vars

\* a sync has re-quarantined a file that had been approved with other bytes
C20_Witness ==
    \E f \in ToolFiles :
        /\ just_synced
        /\ approved_hash[f] \notin {"none", approvals[f].file_hash}
        /\ approvals[f].status = "quarantined"
        /\ approvals[f].file_hash = tool_file[f]

\* C21: sync_quarantine leaves every approval row whose status is quarantined
\* or rejected unchanged (status, file_hash and reviewed_at), even when the
\* file's bytes have changed since the row was written.
C21_UnapprovedRowsUntouched ==
    [][ \A f \in ToolFiles :
          (just_synced' /\ approvals[f].status \in {"quarantined", "rejected"})
          => /\ approvals'[f].status = approvals[f].status
             /\ approvals'[f].file_hash = approvals[f].file_hash
             /\ approvals'[f].reviewed_at = approvals[f].reviewed_at ]_vars

\* a sync has passed over a quarantined and a rejected row of files whose
\* bytes are no longer the recorded ones
C21_Witness ==
    /\ just_synced
    /\ \E f, g \in PyFiles :
        /\ approvals[f].status = "quarantined"
        /\ approvals[f].file_hash # tool_file[f]
        /\ approvals[g].status = "rejected"
        /\ approvals[g].file_hash # tool_file[g]

----------------------------------------------------------------------------
\* Claims about the wrapper of execute (checked under SpecTool).

\* C22: for every tool class that defines execute, a call to execute with any
\* params and any keyword arguments raises no exception to the caller: if the
\* tool body raises, the call returns exactly
\* {"error": "Tool '<name>' failed. Check server logs."}.
C22_NeverRaises ==
    /\ tpc # "raised"
    /\ (tpc = "returned" /\ body_end # "return") => outcome = ErrorResult(tool_name)

\* C22 as amended: the call raises no exception derived from Exception: if the
\* tool body raises one, the call returns exactly the error mapping; only an
\* exception outside Exception (the task's cancellation, SystemExit,
\* KeyboardInterrupt) reaches the caller, and a returned mapping is passed on.
C22_ExceptionsBecomeErrors ==
    /\ body_end \in ExceptionClasses => (tpc = "returned" /\ outcome = ErrorResult(tool_name))
    /\ tpc = "raised" => (body_end \in BaseOnlyClasses /\ outcome = [raised |-> body_end])

\* a body entered with part of the call's keyword arguments has raised an
\* exception and the caller holds the error mapping
C22_Witness ==
    /\ tpc = "returned"
    /\ body_end \in ExceptionClasses
    /\ body_kw # call_kw
    /\ outcome = ErrorResult(tool_name)

----------------------------------------------------------------------------
\* Claims about route_input (checked under SpecRoute).

\* C23: for every user input, registry content, LLM behaviour (any reply,
\* failed call, refusal, malformed tool-call arguments) and every result a
\* tool returns, route_input returns a response record and raises no
\* exception to the conductor.
C23_RouterNeverRaises ==
    /\ rpc # "raised"
    /\ raised = "none"
    /\ rpc = "done" => resp.type \in {"message", "tool_result", "form"}

\* the request is "/name" or "//name" without arguments for a registered tool
\* whose schema has required fields
C27_EmptyArgsRequired ==
    /\ user_input.slashes \in {1, 2}
    /\ user_input.args = ""
    /\ user_input.name \in tool_reg
    /\ HasRequired(user_input.name)

\* C27: for input "/name" or "//name" with empty arguments, where the tool
\* exists and its schema has required fields, route_input returns a form
\* response and neither executes the tool nor calls the LLM, whether or not
\* an LLM client is configured and whether or not the tool is tagged llm.
C27_EmptyArgsGiveForm ==
    C27_EmptyArgsRequired
    => /\ llm_calls = 0
       /\ direct_exec = << >>
       /\ chain = << >>
       /\ rpc \in {"done", "raised"} => (rpc = "done" /\ resp = FormResp(user_input.name))

\* C28: for every input of the form "//name args", route_input makes no call
\* to the LLM client, and when the tool exists and no form is returned it
\* executes that tool exactly once with the parsed arguments (the JSON value
\* if args parses as JSON, otherwise {"query": args}).
C28_DirectParsesArgs ==
    user_input.slashes = 2
    => /\ llm_calls = 0
       /\ (rpc = "done" /\ user_input.name \in tool_reg /\ resp.type # "form")
          => direct_exec = << [tool |-> user_input.name,
                               params |-> ParseArgsWrapsEmpty(user_input.args),
                               mode |-> "direct"] >>

\* C28 as amended: for every input of the form "//name args", route_input
\* makes no call to the LLM client, and when the tool exists, the input is not
\* "//help" and no form is returned, it executes that tool exactly once, in
\* mode direct, with the parsed arguments: the empty mapping if args is empty,
\* the JSON value if args parses as JSON, otherwise {"query": args}.
C28_DirectParsesArgsOrNone ==
    user_input.slashes = 2
    => /\ llm_calls = 0
       /\ chain = << >>
       /\ (rpc = "done" /\ user_input.name \in tool_reg /\ ~IsHelp(user_input)
           /\ resp.type # "form")
          => /\ Len(direct_exec) = 1
             /\ direct_exec[1].tool = user_input.name
             /\ direct_exec[1].mode = "direct"
             /\ direct_exec[1].params =
                    IF user_input.args = "" THEN {}
                    ELSE IF user_input.args = "hello" THEN {<< "query", "hello" >>}
                    ELSE {<< "key", "val" >>}
             /\ resp.type = "tool_result"
             /\ resp.params = direct_exec[1].params

\* "//direct" has executed the tool with the empty mapping
C28_Witness ==
    /\ user_input.slashes = 2
    /\ user_input.args = ""
    /\ rpc = "done"
    /\ Len(direct_exec) = 1
    /\ direct_exec[1].params = {}
    /\ resp.type = "tool_result"

\* the tools executed during the request, in the order of their tool messages
ExecutedTools ==
    LET ran(m) == m.role = "tool" /\ m.content = "summary"
        msgs == SelectSeq(messages, ran)
    IN  [ i \in 1 .. Len(msgs) |-> msgs[i].tool ]

\* the response carries the last executed step and every step in order
CarriesLastAndChain ==
    LET last == chain_steps[Len(chain_steps)]
    IN  /\ resp.type = "tool_result"
        /\ resp.tool = last.tool
        /\ resp.params = last.params
        /\ FormatResult(resp.tool, resp.data) = last.summary
        /\ resp.chain = chain_steps
        /\ [ i \in 1 .. Len(chain_steps) |-> chain_steps[i].tool ] = ExecutedTools

\* C29: when the loop ends with a text turn, the response is a tool_result
\* carrying the data and params of the last executed tool, the LLM's text and
\* the chain of all executed steps in execution order if at least one tool was
\* executed during the request (whatever that tool returned), and a plain
\* message otherwise; in both cases it carries the accumulated token counts.
C29_TextTurnResponse ==
    ended = "text"
    => /\ resp.tokens = tokens
       /\ resp.content \in ReplyTexts
       /\ IF ExecutedTools # << >>
          THEN CarriesLastAndChain
          ELSE resp.type = "message" /\ resp.chain = << >>

\* C30: if the loop ends without a text turn (every one of the max_turns turns
\* issued tool calls, or an LLM call failed) after at least one tool was
\* executed, the response carries the last executed tool's data and the full
\* chain, and its content is the last chain step's summary followed by
\* "reached maximum reasoning steps".
C30_FallbackResponse ==
    (ended = "fallback" /\ ExecutedTools # << >>)
    => /\ CarriesLastAndChain
       /\ resp.content = chain_steps[Len(chain_steps)].summary
                         \o << "(reached maximum reasoning steps)" >>

----------------------------------------------------------------------------
\* Claims about the conversation history (checked under SpecHistory).

\* C24: in every reachable state of a connection, after any sequence of
\* content, cancel and load_chat messages, the conversation history holds at
\* most 2 * max_history_pairs messages, and truncation removes the oldest
\* messages first (the history is the newest part of what was put into it).
C24_HistoryBounded ==
    /\ Len(history) <= 2 * MaxPairs
    /\ Len(history) <= Len(h_all)
    /\ history = SubSeq(h_all, Len(h_all) - Len(history) + 1, Len(h_all))

----------------------------------------------------------------------------
\* Claims about the auto-pipe cache (checked under SpecPipe).

\* the value stashed last under key k by the stashes st, NoValue if none
RECURSIVE MostRecent(_, _)
MostRecent(st, k) ==
    IF st = << >> THEN NoValue
    ELSE IF st[Len(st)][1] = k THEN st[Len(st)][2]
    ELSE MostRecent(SubSeq(st, 1, Len(st) - 1), k)

\* C25: when an earlier tool call of the request returned a string of
\* length >= pipe_min_length under key k, a later call of a tool whose
\* schema has a parameter k is executed with the most recently stashed
\* value of k if the LLM-provided value is missing, empty or a string
\* shorter than pipe_min_length, and with the LLM-provided value unchanged
\* if that is a string of length >= pipe_min_length.
C25_AutoPipeInject ==
    call_rec # NoCallRec =>
        \A k \in SchemaProps(call_rec.tool) :
            LET given  == call_rec.provided[k]
                recent == MostRecent(call_rec.before, k)
            IN  recent # NoValue =>
                  /\ given.kind = "missing" => call_rec.params[k] = recent
                  /\ (given.kind = "str" /\ given.len < pipe_min_length)
                        => call_rec.params[k] = recent
                  /\ (given.kind = "str" /\ given.len >= pipe_min_length)
                        => call_rec.params[k] = given

\* C25 witness: two earlier calls stashed different strings under
\* "sequence"; the LLM gave the consumer a short placeholder and the
\* consumer was executed with the second string.
C25_Witness ==
    /\ call_rec # NoCallRec
    /\ call_rec.tool = "consumer"
    /\ Len(call_rec.before) = 2
    /\ call_rec.before[1][1] = "sequence"
    /\ call_rec.before[2][1] = "sequence"
    /\ call_rec.before[1][2] # call_rec.before[2][2]
    /\ call_rec.provided["sequence"] = Str(50, 0)
    /\ call_rec.params["sequence"] = call_rec.before[2][2]

\* C26: for every configured pipe_min_length and summary_token_limit, no
\* message sent to the LLM contains the complete value of a stashed
\* tool-result string.
C26_StashedNeverSent ==
    \A i \in 1 .. Len(tool_msgs) :
        \A j \in 1 .. Len(tool_msgs[i]) :
            Stashes(tool_msgs[i][j].val, pipe_min_length)
                => tool_msgs[i][j].kept < tool_msgs[i][j].val.len

\* C33 as stated: for every result and every token budget T, the string
\* returned by summary_for_llm(result, T) has at most 4 * T characters.
C33_SummaryWithinBudget ==
    summary_len <= 4 * summary_token_limit

\* C33, amended: the string has at most 4 * T + 3 characters (a text
\* longer than 4 * T is cut to 4 * T characters and "..." is added).
C33_SummaryWithinBudgetAndEllipsis ==
    summary_len <= 4 * summary_token_limit + 3

\* C33 witness: a summary was cut and is longer than 4 * T.
C33_Witness ==
    /\ summary_len = 4 * summary_token_limit + 3
    /\ tool_msgs # << >>

----------------------------------------------------------------------------
\* Claims about the command line of a BLAST search (checked under SpecSearch).

\* The options the BLAST program reads from the argument vector c from
\* position i on: an option that is not a switch is followed by its value.
RECURSIVE OptionsRead(_, _)
OptionsRead(c, i) ==
    IF i > Len(c) THEN << >>
    ELSE IF c[i].dash /\ c[i].text \notin Switches
         THEN << [name |-> c[i].text,
                  value |-> IF i < Len(c) THEN c[i + 1] ELSE Val("")] >>
              \o OptionsRead(c, i + 2)
         ELSE (IF c[i].dash THEN << [name |-> c[i].text, value |-> Val("")] >> ELSE << >>)
              \o OptionsRead(c, i + 1)

Times(opts, name) == Cardinality({ i \in 1 .. Len(opts) : opts[i].name = name })

\* C34: for every blast request, whatever keys the caller places in the
\* named parameters or in extra, the command line of the search process
\* carries -query, -db and -outfmt exactly once each, with the
\* server-chosen values, and carries none of the other forbidden flags.
C34_ForbiddenFlagsNeverPassed ==
    search_pc \in {"exec", "done"} =>
        LET opts == OptionsRead(cmd, 2)
        IN  /\ \A i \in 1 .. Len(opts) :
                 /\ opts[i].name = "query" => opts[i].value = Val("query_file")
                 /\ opts[i].name = "db" => opts[i].value = Val("db_file")
                 /\ opts[i].name = "outfmt" => opts[i].value = Val("6 sseqid ...")
            /\ Times(opts, "query") = 1
            /\ Times(opts, "db") = 1
            /\ Times(opts, "outfmt") = 1
            /\ \A f \in blocked \ {"query", "db", "outfmt"} : Times(opts, f) = 0

----------------------------------------------------------------------------
\* A claim about narrowing (checked under SpecRouter).

\* C35: if the last tool called in an LLM turn is T and T is a key of the
\* narrowing table, then every tool executed during the following turn is a
\* member of T's "Allowed next" set, whatever tool names the LLM puts in its
\* tool calls.
C35_NextTurnExecutesAllowedOnly ==
    \A i, j \in 1 .. Len(chain) :
        ( /\ chain_turn[j] = chain_turn[i] + 1
          /\ (i = Len(chain) \/ chain_turn[i + 1] # chain_turn[i])
          /\ chain[i] \in DOMAIN NEXT_TOOLS )
        => chain[j] \in NEXT_TOOLS[chain[i]]

----------------------------------------------------------------------------
\* A further claim about ingestion (checked under SpecIngest).

\* the bytes of the file as call r saw them: those the parser read, or,
\* when the call returned before parsing, those it hashed
BytesSeen(r) ==
    IF run[r].content # "none" THEN run[r].content
    ELSE CHOOSE c \in Contents : hash_file(c) = run[r].file_hash

\* C36: after an ingest_file call on a file that the parser accepts has
\* returned, the file row of that path has status active and owns exactly
\* one sequence with the content of the file's bytes, whatever the row's
\* status (absent, active, error or deleted) and stored hash were before.
C36_AcceptedFileIsActive ==
    \A r \in Runs :
        ( /\ JustEnded(r)
          /\ run[r].pc = "done"
          /\ run[r].op = "ingest"
          /\ ParseOk(BytesSeen(r)) )
        => /\ Cardinality(FileRows(run[r].path)) = 1
           /\ \A f \in FileRows(run[r].path) :
                 /\ f.status = "active"
                 /\ Cardinality(SeqRows(f.id)) = 1
                 /\ \A s \in SeqRows(f.id) : s.src = BytesSeen(r)

----------------------------------------------------------------------------
\* A claim about the watcher and the BLAST index (checked under SpecWatch).

\* C37: whenever the watcher is idle (every delivered change event has been
\* processed and no index build is running), the BLAST index was built from
\* a snapshot of the index store that includes every committed ingest and
\* every committed removal.
C37_IndexFollowsStore ==
    (wpc = "idle" /\ w_events = << >>) => w_index = w_store

----------------------------------------------------------------------------
\* A claim about the watcher task (checked under SpecAdmin).

\* C38: for any interleaving of admin watcher-start and watcher-stop
\* requests with the startup scan-then-watch task, at most one watch loop
\* (watch_directory) is running in the server process at any time.
C38_AtMostOneWatchLoop == Cardinality(WatchLoops) <= 1

----------------------------------------------------------------------------
\* A claim about progress events (checked under SpecProgress).

\* C32: for every run of route_input, the returned response, the tools
\* executed and the LLM calls made are the same whether the on_progress
\* callback delivers, drops or fails on any progress event: a run that has
\* ended has returned what the run without callback returns.
C32_ProgressNeverMatters ==
    e_pc \in {"done", "raised"} =>
        /\ e_pc = "done"
        /\ [llm_calls |-> e_llm_calls, tools |-> e_tools, resp |-> e_resp]
              = RunWithoutCallback(script, 1, << >>)

----------------------------------------------------------------------------
\* Claims about the current chat and the chat storage (checked under
\* SpecChat).

\* C31: for each chat id, the LLM is asked for a title at most once over the
\* lifetime of that chat, across any sequence of content, cancel and
\* load_chat messages.
C31_TitleAskedOnce == \A c \in ChatIds : title_asks[c] <= 1

\* The chat that was current when request t was received: its id, once it
\* has one (0 as long as it has none).
ChatOf(t) == IF recv_chat[t] = 0 THEN fresh_id ELSE recv_chat[t]

\* C39: the user message, the assistant reply and the generated title of a
\* request are stored in the chat that was the connection's current chat
\* when the request was received, even if a load_chat message is handled
\* while the request is in flight.
C39_StoredInChatOfReceipt ==
    \A c \in ChatIds :
        /\ \A i \in 1 .. Len(store[c].messages) :
              store[c].messages[i].req \in Tasks => c = ChatOf(store[c].messages[i].req)
        /\ store[c].title \in Tasks => c = ChatOf(store[c].title)

\* The cancel message for request t was handled before route_input returned
\* its result: the task had not started or was suspended in route_input.
CancelledBeforeReturn(t) ==
    \E i \in 1 .. Len(cancel_at[t]) : cancel_at[t][i] \in {"created", "route"}

\* the messages of request t in a list of messages
MessagesOf(t, msgs) == { i \in 1 .. Len(msgs) : msgs[i].req = t }

====
